---- MODULE Spec2Model ----
(***************************************************************************)
(* Verification model of monkey1shuffler: the SCUMM V4 script codec        *)
(* (disasm.py), the resource model and serializer (resources.py), the      *)
(* room-link rewriter (mod_rooms.py) and the driver (cli.py).              *)
(*                                                                         *)
(* Bytes are naturals 0..255, byte strings are sequences of bytes.         *)
(* Stream positions are 1-based indexes into the byte string; the offsets  *)
(* recorded in the decoded instruction list are the 0-based stream.tell(). *)
(***************************************************************************)
EXTENDS Integers, Sequences, FiniteSets, TLC

VARIABLES
    data,       \* bytes of the script chunk as loaded
    script,     \* decoded instruction list [(offset, V4Instr)], edited in place
    chunk,      \* the chunk model's data bytes (replaced by each writeback)
    status,     \* "loaded", "written" after a writeback, "failed" once one raised
    edits,      \* mutators applied to the script so far, in order
    home,       \* where the script lives in the content tree
    \* one object (OC block) and its verbs
    oc,         \* the OC model: [events, name, data]
    verbs,      \* content[room]["objects"][id]["verbs"]: <<[verb, code]>> in dict order
    object_id,  \* the object id
    ostatus,    \* "loaded", "written", "failed"
    oedits,     \* mutators applied to the object so far
    \* one disk archive, the master index and the room map
    archive,    \* DISKnn.LEC: [fo, lfs]; the LE holds the FO chunk, then the LFs
    master,     \* 000.LFL: the 0S, 0N, 0C tables of [room_id, offset], by chunk tag
    content,    \* room map: room id -> [index, globals, sounds, costumes]
    saved,      \* TRUE once save_all has repaired the tables and written the files
    out_files,  \* the destination directory: file name -> "absent", "old", "empty", "new"
    save_error, \* TRUE once save_all has raised
    load_error, \* TRUE when dump_all raised, and no room map was built
    \* the main-world shuffle (mod_rooms.shuffle_rooms)
    world,          \* content: the scripts of the rooms, <<[room, type, id, verb, code]>>
    links,          \* the link records of generate_room_links, edited in place
    room_cluster,   \* rooms reached from the start room before the shuffle
    room_links,     \* the records of `links` the shuffle works on, as indexes
    hubs,           \* room -> exit ids, rooms with more than one destination
    dead_ends,      \* room -> exit ids, rooms with one destination
    edges_left,     \* unbound exits <<room, id>> of the rooms wired so far
    links_to_write, \* the records whose scripts are written back at the end, as a set
    rstatus,        \* "loaded", "shuffling", "done", "failed"
    \* two runs of the driver on the same input and arguments (cli.main)
    cli_args,   \* the parsed command line (args of main)
    runs,       \* per run: [random_seed, rng, choices, pc]
    \* the forest shuffle (mod_rooms.shuffle_forest)
    forest,         \* content[58]: the verbs of the exit objects, <<[room, type, id, verb, code]>>
    forest_before,  \* the same as loaded
    forest_links,   \* the link records of find_forest_links, edited in place
    forest_todo,    \* the hubs, then the passages, the two loops have yet to visit
    forest_data,    \* the code bytes of the exit objects as written back
    fstatus         \* "loaded", "shuffling", "done", "failed"

scriptVars == <<data, script, chunk, status, edits, home>>

objectVars == <<oc, verbs, object_id, ostatus, oedits>>

saveVars == <<archive, master, content, saved, out_files, save_error, load_error>>

roomsVars == <<world, links, room_cluster, room_links, hubs, dead_ends, edges_left,
               links_to_write, rstatus>>

cliVars == <<cli_args, runs>>

forestVars == <<forest, forest_before, forest_links, forest_todo, forest_data, fstatus>>

vars == <<scriptVars, objectVars, saveVars, roomsVars, cliVars, forestVars>>

----------------------------------------------------------------------------
(* Byte codec utilities (mrcrowbar.utils as used by disasm.py).            *)

Bit(v, mask) == (v \div mask) % 2 = 1

Low5(v) == v % 32

Low4(v) == v % 16

ByteAt(b, p) == IF p \in 1..Len(b) THEN b[p] ELSE 0

from_uint16_le(b, p) == ByteAt(b, p) + 256 * ByteAt(b, p + 1)

from_int16_le(b, p) ==
    LET u == from_uint16_le(b, p) IN IF u >= 32768 THEN u - 65536 ELSE u

\* An exception raised while encoding is a poison byte -1 in the result: it
\* survives every concatenation, and IsError finds it in the finished bytes.
ERR == <<-1>>

IsError(b) == \E i \in 1..Len(b) : b[i] = -1

\* struct.pack raises on a value outside the field's range
to_uint8(v) == IF v \in 0..255 THEN <<v>> ELSE ERR

to_uint16_le(v) == IF v \in 0..65535 THEN <<v % 256, v \div 256>> ELSE ERR

to_int16_le(v) ==
    IF v \in (-32768)..32767
    THEN <<(v % 65536) % 256, (v % 65536) \div 256>>
    ELSE ERR

SubBytes(b, from, to) == [i \in 1..(to - from + 1) |-> b[from + i - 1]]

RECURSIVE Concat(_)
Concat(ss) == IF ss = <<>> THEN <<>> ELSE Head(ss) \o Concat(Tail(ss))

----------------------------------------------------------------------------
(* Operands.  An immediate is <<"imm", v>>; a V4Var is <<"var", id, extra>> *)
(* with extra = -1 standing for None.                                      *)

Imm(v) == <<"imm", v>>

V4Var(id, extra) == <<"var", id, extra>>

IsVar(x) == x[1] = "var"

var_raw(x) == to_uint16_le(x[2]) \o (IF x[3] = -1 THEN <<>> ELSE to_uint16_le(x[3]))

\* A reader returns the value read and the position after it.
get_byte(b, p) == [v |-> Imm(ByteAt(b, p)), p |-> p + 1]

get_signed_word(b, p) == [v |-> Imm(from_int16_le(b, p)), p |-> p + 2]

get_var(b, p) ==
    LET id == from_uint16_le(b, p) IN
    IF Bit(id, 8192)
    THEN [v |-> V4Var(id, from_uint16_le(b, p + 2)), p |-> p + 4]
    ELSE [v |-> V4Var(id, -1), p |-> p + 2]

VarOrByte(flag, b, p) == IF flag THEN get_var(b, p) ELSE get_byte(b, p)

VarOrWord(flag, b, p) == IF flag THEN get_var(b, p) ELSE get_signed_word(b, p)

\* operand encoders: x.raw() if isinstance(x, V4Var) else utils.to_xxx(x)
RawOrByte(x) == IF IsVar(x) THEN var_raw(x) ELSE to_uint8(x[2])

RawOrWord(x) == IF IsVar(x) THEN var_raw(x) ELSE to_int16_le(x[2])

Flag(x, mask) == IF IsVar(x) THEN mask ELSE 0

RECURSIVE get_vararg(_, _, _)
get_vararg(b, p, acc) ==
    IF p > Len(b) THEN [v |-> acc, p |-> Len(b) + 2]
    ELSE IF b[p] = 255 THEN [v |-> acc, p |-> p + 1]
    ELSE LET r == VarOrWord(Bit(b[p], 128), b, p + 1)
         IN  get_vararg(b, r.p, Append(acc, r.v))

----------------------------------------------------------------------------
(* Text tokens.  A token is [name, data]; data is <<"bytes", b1, ..>> for  *)
(* literal text, an operand for the escapes that carry one, <<"none">>     *)
(* otherwise.                                                              *)

Token(name, d) == [name |-> name, data |-> d]

FlushText(acc, buf) ==
    IF buf = <<>> THEN acc ELSE Append(acc, Token("text", <<"bytes">> \o buf))

\* the escape selected by byte `code` at position p - 1; p is after the code
TextEscape(code, b, p) ==
    CASE code = 1 -> [t |-> <<Token("newline", <<"none">>)>>, p |-> p]
      [] code = 2 -> [t |-> <<Token("keepText", <<"none">>)>>, p |-> p]
      [] code = 3 -> [t |-> <<Token("wait", <<"none">>)>>, p |-> p]
      [] code = 4 -> [t |-> <<Token("getInt", get_var(b, p).v)>>, p |-> get_var(b, p).p]
      [] code = 5 -> [t |-> <<Token("getVerb", get_var(b, p).v)>>, p |-> get_var(b, p).p]
      [] code = 6 -> [t |-> <<Token("getName", get_var(b, p).v)>>, p |-> get_var(b, p).p]
      [] code = 7 -> [t |-> <<Token("getString", get_var(b, p).v)>>, p |-> get_var(b, p).p]
      [] code = 9 -> [t |-> <<Token("startAnim", get_signed_word(b, p).v)>>, p |-> p + 2]
      [] code = 12 -> [t |-> <<Token("setColor", get_signed_word(b, p).v)>>, p |-> p + 2]
      [] code = 14 -> [t |-> <<Token("setFont", get_signed_word(b, p).v)>>, p |-> p + 2]
      [] OTHER -> [t |-> <<>>, p |-> p]

RECURSIVE TextLoop(_, _, _, _)
TextLoop(b, p, acc, buf) ==
    IF p > Len(b) THEN [v |-> FlushText(acc, buf), p |-> Len(b) + 2]
    ELSE IF b[p] = 0 THEN [v |-> FlushText(acc, buf), p |-> p + 1]
    ELSE IF b[p] = 255 \/ b[p] = 254
         THEN LET e == TextEscape(ByteAt(b, p + 1), b, p + 2)
              IN  TextLoop(b, e.p, FlushText(acc, buf) \o e.t, <<>>)
         ELSE TextLoop(b, p + 1, acc, Append(buf, b[p]))

get_text_tokens(b, p) == TextLoop(b, p, <<>>, <<>>)

TokenBytes(tok) ==
    CASE tok.name = "text" -> Tail(tok.data)
      [] tok.name = "newline" -> <<255, 1>>
      [] tok.name = "keepText" -> <<255, 2>>
      [] tok.name = "wait" -> <<255, 3>>
      [] tok.name = "getInt" -> IF IsVar(tok.data) THEN <<255, 4>> \o var_raw(tok.data) ELSE ERR
      [] tok.name = "getVerb" -> IF IsVar(tok.data) THEN <<255, 5>> \o var_raw(tok.data) ELSE ERR
      [] tok.name = "getName" -> IF IsVar(tok.data) THEN <<255, 6>> \o var_raw(tok.data) ELSE ERR
      [] tok.name = "getString" -> IF IsVar(tok.data) THEN <<255, 7>> \o var_raw(tok.data) ELSE ERR
         \* startAnim asserts a V4Var, the decoder stores an int
      [] tok.name = "startAnim" -> IF IsVar(tok.data) THEN <<255, 9>> \o var_raw(tok.data) ELSE ERR
         \* setColor, setFont: utils.from_int16_le applied to an int raises
      [] tok.name = "setColor" -> ERR
      [] tok.name = "setFont" -> ERR
      [] OTHER -> <<>>

text_tokens_to_bytes(tokens) ==
    Concat([i \in 1..Len(tokens) |-> TokenBytes(tokens[i])]) \o <<0>>

----------------------------------------------------------------------------
(* Sub-opcode groups: print strings, verbOps, stringOps.  An entry of an   *)
(* ops list is [op, data] with data the dict of its arguments.             *)

SubOp(op, d) == [op |-> op, data |-> d]

\* two operands read one after the other
Pair(r1, r2) == [a |-> r1.v, b |-> r2.v, p |-> r2.p]

WordWord(op, b, p) ==
    LET r1 == VarOrWord(Bit(op, 128), b, p)
        r2 == VarOrWord(Bit(op, 64), b, r1.p)
    IN  Pair(r1, r2)

RECURSIVE parse_sostring_loop(_, _, _)
parse_sostring_loop(b, p, ops) ==
    IF p > Len(b) THEN [v |-> ops, p |-> Len(b) + 2]
    ELSE IF b[p] = 255 THEN [v |-> ops, p |-> p + 1]
    ELSE
      LET op == b[p]
          a1 == Bit(op, 128)
          q  == p + 1
          sel == Low4(op)
      IN
      CASE sel = 0 ->
             LET r == WordWord(op, b, q)
             IN  parse_sostring_loop(b, r.p, Append(ops, SubOp("SO_AT", [xpos |-> r.a, ypos |-> r.b])))
        [] sel = 1 ->
             LET r == VarOrByte(a1, b, q)
             IN  parse_sostring_loop(b, r.p, Append(ops, SubOp("SO_COLOR", [color |-> r.v])))
        [] sel = 2 ->
             LET r == VarOrWord(a1, b, q)
             IN  parse_sostring_loop(b, r.p, Append(ops, SubOp("SO_CLIPPED", [right |-> r.v])))
        [] sel = 3 ->
             LET r == WordWord(op, b, q)
             IN  parse_sostring_loop(b, r.p, Append(ops, SubOp("SO_ERASE", [width |-> r.a, height |-> r.b])))
        [] sel = 4 -> parse_sostring_loop(b, q, Append(ops, SubOp("SO_CENTER", <<>>)))
        [] sel = 6 -> parse_sostring_loop(b, q, Append(ops, SubOp("SO_LEFT", <<>>)))
        [] sel = 7 -> parse_sostring_loop(b, q, Append(ops, SubOp("SO_OVERHEAD", <<>>)))
        [] sel = 8 ->
             LET r == WordWord(op, b, q)
             IN  parse_sostring_loop(b, r.p, Append(ops, SubOp("SO_SAY_VOICE", [offset |-> r.a, delay |-> r.b])))
        [] sel = 15 ->
             LET r == get_text_tokens(b, q)
             IN  [v |-> Append(ops, SubOp("SO_TEXTSTRING", [str |-> r.v])), p |-> r.p]
        [] OTHER -> parse_sostring_loop(b, q, Append(ops, SubOp("SO_UNK", <<>>)))

parse_sostring(b, p) == parse_sostring_loop(b, p, <<>>)

SoStringOpBytes(e) ==
    LET d == e.data IN
    CASE e.op = "SO_AT" ->
           <<Flag(d.xpos, 128) + Flag(d.ypos, 64)>> \o RawOrWord(d.xpos) \o RawOrWord(d.ypos)
      [] e.op = "SO_COLOR" -> <<1 + Flag(d.color, 128)>> \o RawOrByte(d.color)
         \* the decoder reads a word, the encoder writes to_uint8
      [] e.op = "SO_CLIPPED" -> <<2 + Flag(d.right, 128)>> \o RawOrByte(d.right)
      [] e.op = "SO_ERASE" ->
           <<3 + Flag(d.width, 128) + Flag(d.height, 64)>> \o RawOrWord(d.width) \o RawOrWord(d.height)
      [] e.op = "SO_CENTER" -> <<4>>
      [] e.op = "SO_LEFT" -> <<6>>
      [] e.op = "SO_OVERHEAD" -> <<7>>
      [] e.op = "SO_SAY_VOICE" ->
           <<8 + Flag(d.offset, 128) + Flag(d.delay, 64)>> \o RawOrWord(d.offset) \o RawOrWord(d.delay)
      [] e.op = "SO_TEXTSTRING" -> <<15>> \o text_tokens_to_bytes(d.str)
      [] OTHER -> <<>>

\* SO_TEXTSTRING returns from the loop: nothing after it is written, nor 0xFF
RECURSIVE sostring_to_bytes(_)
sostring_to_bytes(ops) ==
    IF ops = <<>> THEN <<255>>
    ELSE IF Head(ops).op = "SO_TEXTSTRING" THEN SoStringOpBytes(Head(ops))
    ELSE SoStringOpBytes(Head(ops)) \o sostring_to_bytes(Tail(ops))

VerbOp1(name, field, r) == [e |-> <<SubOp(name, field :> r.v)>>, p |-> r.p]

\* the sub-op at position p - 1 (byte op); p is after the sub-opcode
ParseVerbOp(op, b, p) ==
    LET a1 == Bit(op, 128)
        a2 == Bit(op, 64)
        sel == Low5(op)
    IN
    CASE sel = 1 -> VerbOp1("SO_VERB_IMAGE", "obj", VarOrWord(a1, b, p))
      [] sel = 2 -> VerbOp1("SO_VERB_NAME", "text", get_text_tokens(b, p))
      [] sel = 3 -> VerbOp1("SO_VERB_COLOR", "color", VarOrByte(a1, b, p))
      [] sel = 4 -> VerbOp1("SO_VERB_HICOLOR", "color", VarOrByte(a1, b, p))
      [] sel = 5 ->
           LET r == WordWord(op, b, p)
           IN  [e |-> <<SubOp("SO_VERB_AT", [x |-> r.a, y |-> r.b])>>, p |-> r.p]
      [] sel = 6 -> [e |-> <<SubOp("SO_VERB_ON", <<>>)>>, p |-> p]
      [] sel = 7 -> [e |-> <<SubOp("SO_VERB_OFF", <<>>)>>, p |-> p]
      [] sel = 8 -> [e |-> <<SubOp("SO_VERB_DELETE", <<>>)>>, p |-> p]
      [] sel = 9 -> [e |-> <<SubOp("SO_VERB_NEW", <<>>)>>, p |-> p]
      [] sel = 16 -> VerbOp1("SO_VERB_DIMCOLOR", "color", VarOrByte(a1, b, p))
      [] sel = 17 -> [e |-> <<SubOp("SO_VERB_DIM", <<>>)>>, p |-> p]
      [] sel = 18 -> VerbOp1("SO_VERB_KEY", "key", VarOrByte(a1, b, p))
      [] sel = 19 -> [e |-> <<SubOp("SO_VERB_CENTER", <<>>)>>, p |-> p]
      [] sel = 20 -> VerbOp1("SO_VERB_NAME_STR", "idx", VarOrWord(a1, b, p))
      [] sel = 22 ->
           LET r1 == VarOrWord(a1, b, p)
               r2 == VarOrByte(a2, b, r1.p)
           IN  [e |-> <<SubOp("SO_VERB_ASSIGN_OBJECT", [obj |-> r1.v, room |-> r2.v])>>, p |-> r2.p]
         \* SO_VERB_BACKCOLOR reads its colour and appends nothing
      [] sel = 23 -> [e |-> <<>>, p |-> VarOrByte(a1, b, p).p]
      [] OTHER -> [e |-> <<>>, p |-> p]

RECURSIVE parse_verbops_loop(_, _, _)
parse_verbops_loop(b, p, ops) ==
    IF p > Len(b) THEN [v |-> ops, p |-> Len(b) + 2]
    ELSE IF b[p] = 255 THEN [v |-> ops, p |-> p + 1]
    ELSE LET r == ParseVerbOp(b[p], b, p + 1)
         IN  parse_verbops_loop(b, r.p, ops \o r.e)

parse_verbops(b, p) == parse_verbops_loop(b, p, <<>>)

VerbOpBytes(e) ==
    LET d == e.data IN
    CASE e.op = "SO_VERB_IMAGE" -> <<1 + Flag(d.obj, 128)>> \o RawOrWord(d.obj)
      [] e.op = "SO_VERB_NAME" -> <<2>> \o text_tokens_to_bytes(d.text)
      [] e.op = "SO_VERB_COLOR" -> <<3>> \o RawOrByte(d.color)
      [] e.op = "SO_VERB_HICOLOR" -> <<4>> \o RawOrByte(d.color)
      [] e.op = "SO_VERB_AT" ->
           <<5 + Flag(d.x, 128) + Flag(d.y, 64)>> \o RawOrWord(d.x) \o RawOrWord(d.y)
      [] e.op = "SO_VERB_ON" -> <<6>>
      [] e.op = "SO_VERB_OFF" -> <<7>>
      [] e.op = "SO_VERB_DELETE" -> <<8>>
      [] e.op = "SO_VERB_NEW" -> <<9>>
      [] e.op = "SO_VERB_DIMCOLOR" -> <<16 + Flag(d.color, 128)>> \o RawOrWord(d.color)
      [] e.op = "SO_VERB_DIM" -> <<17>>
      [] e.op = "SO_VERB_KEY" -> <<18 + Flag(d.key, 128)>> \o RawOrWord(d.key)
      [] e.op = "SO_VERB_CENTER" -> <<19>>
      [] e.op = "SO_VERB_NAME_STR" -> <<20 + Flag(d.idx, 128)>> \o RawOrWord(d.idx)
      [] e.op = "SO_VERB_ASSIGN_OBJECT" ->
           <<22 + Flag(d.obj, 128)>> \o RawOrWord(d.obj) \o RawOrWord(d.room)
      [] e.op = "SO_VERB_BACKCOLOR" -> <<23 + Flag(d.color, 128)>> \o RawOrWord(d.color)
      [] OTHER -> <<>>

verbops_to_bytes(ops) ==
    Concat([i \in 1..Len(ops) |-> VerbOpBytes(ops[i])]) \o <<255>>

\* parse_stringops returns (func, args, result)
parse_stringops(b, p) ==
    LET op == ByteAt(b, p)
        a1 == Bit(op, 128)
        a2 == Bit(op, 64)
        a3 == Bit(op, 32)
        sel == Low5(op)
        q == p + 1
        ra == VarOrByte(a1, b, q)
        rb == VarOrByte(a2, b, ra.p)
        rc == VarOrByte(a3, b, rb.p)
        none == <<"none">>
    IN
    CASE sel = 1 ->
           LET t == get_text_tokens(b, ra.p)
           IN  [func |-> "loadstring", args |-> [index |-> ra.v, string |-> t.v],
                result |-> none, p |-> t.p]
      [] sel = 2 -> [func |-> "copystring", args |-> [a |-> ra.v, b |-> rb.v],
                     result |-> none, p |-> rb.p]
      [] sel = 3 -> [func |-> "setstringchar", args |-> [a |-> ra.v, b |-> rb.v, c |-> rc.v],
                     result |-> none, p |-> rc.p]
      [] sel = 4 ->
           LET t == get_var(b, q)
               xa == VarOrByte(a1, b, t.p)
               xb == VarOrByte(a2, b, xa.p)
           IN  [func |-> "getstringchar", args |-> [a |-> xa.v, b |-> xb.v],
                result |-> t.v, p |-> xb.p]
      [] sel = 5 -> [func |-> "createemptystring", args |-> [a |-> ra.v, b |-> rb.v],
                     result |-> none, p |-> rb.p]
      [] OTHER -> [func |-> "unk", args |-> <<>>, result |-> none, p |-> q]

stringops_to_bytes(op, args, target) ==
    CASE op = "loadstring" ->
           <<1 + Flag(args.index, 128)>> \o RawOrByte(args.index)
             \o text_tokens_to_bytes(args.string)
      [] op = "copystring" ->
           <<2 + Flag(args.a, 128) + Flag(args.b, 64)>> \o RawOrByte(args.a) \o RawOrByte(args.b)
      [] op = "setstringchar" ->
           <<3 + Flag(args.a, 128) + Flag(args.b, 64) + Flag(args.c, 32)>>
             \o RawOrByte(args.a) \o RawOrByte(args.b) \o RawOrByte(args.c)
      [] op = "getstringchar" ->
           <<4 + Flag(args.a, 128) + Flag(args.b, 64)>>
             \o (IF IsVar(target) THEN var_raw(target) ELSE ERR)
             \o RawOrByte(args.a) \o RawOrByte(args.b)
      [] op = "createemptystring" ->
           <<5 + Flag(args.a, 128) + Flag(args.b, 64)>> \o RawOrByte(args.a) \o RawOrByte(args.b)
      [] OTHER -> <<>>

----------------------------------------------------------------------------
(* Instructions: V4Instr(opcode, name, args, target, raw).                 *)

NoTarget == <<"none">>

V4Instr(opcode, name, args, target) ==
    [opcode |-> opcode, name |-> name, args |-> args, target |-> target, raw |-> <<>>]

\* the opcodes no case of get_v4_instr names: they decode as "unk"
UnknownOpcodes == {76, 102, 103, 107, 110, 167, 230, 231, 235, 238}

ComparisonName(opcode) ==
    CASE opcode % 128 = 4 -> "isGreaterEqual"
      [] opcode % 128 = 8 -> "isNotEqual"
      [] opcode % 128 = 56 -> "isLessEqual"
      [] opcode % 128 = 68 -> "isLess"
      [] opcode % 128 = 72 -> "isEqual"
      [] OTHER -> "isGreater"

ComparisonOpcode(name) ==
    CASE name = "isGreaterEqual" -> 4
      [] name = "isNotEqual" -> 8
      [] name = "isLessEqual" -> 56
      [] name = "isLess" -> 68
      [] name = "isEqual" -> 72
      [] OTHER -> 120

ComparisonNames ==
    {"isGreaterEqual", "isNotEqual", "isLessEqual", "isLess", "isEqual", "isGreater"}

RECURSIVE ClassLoop(_, _, _)
ClassLoop(b, p, acc) ==
    IF p > Len(b) THEN [v |-> acc, p |-> Len(b) + 2]
    ELSE IF b[p] = 255 THEN [v |-> acc, p |-> p + 1]
    ELSE LET r == VarOrWord(Bit(b[p], 128), b, p + 1)
         IN  ClassLoop(b, r.p, Append(acc, r.v))

\* name, args, target and end position of the instruction whose opcode byte
\* is at position p
DecodeBody(b, p) ==
    LET opcode == b[p]
        a1 == Bit(opcode, 128)
        a2 == Bit(opcode, 64)
        q == p + 1
        D(name, args, target, e) == [name |-> name, args |-> args, target |-> target, p |-> e]
    IN
    CASE opcode \in {0, 160} -> D("stopObjectCode", <<>>, NoTarget, q)
      [] opcode \in {4, 132, 8, 136, 56, 184, 68, 196, 72, 200, 120, 248} ->
           LET a == get_var(b, q)
               bb == VarOrWord(a1, b, a.p)
               o == get_signed_word(b, bb.p)
           IN  D(ComparisonName(opcode), [a |-> a.v, b |-> bb.v, offset |-> o.v[2]], NoTarget, o.p)
      [] opcode % 32 = 10 ->
           LET sc == VarOrByte(a1, b, q)
               va == get_vararg(b, sc.p, <<>>)
           IN  D("startScript",
                 [script |-> sc.v, var |-> va.v, recursive |-> a2, freeze_resistant |-> Bit(opcode, 32)],
                 NoTarget, va.p)
      [] opcode \in {15, 79, 143, 207, 47, 111, 175, 239} ->
           LET obj == VarOrWord(a1, b, q)
               val == VarOrByte(a2, b, obj.p)
               o == get_signed_word(b, val.p)
           IN  D(IF opcode % 64 = 15 THEN "ifState" ELSE "ifNotState",
                 [obj |-> obj.v, val |-> val.v, offset |-> o.v[2]], NoTarget, o.p)
      [] opcode \in {16, 144} ->
           LET t == get_var(b, q)
               obj == VarOrWord(a1, b, t.p)
           IN  D("getObjectOwner", [obj |-> obj.v], t.v, obj.p)
      [] opcode \in {20, 148} ->
           LET act == VarOrByte(a1, b, q)
               ops == parse_sostring(b, act.p)
           IN  D("print", [act |-> act.v, ops |-> ops.v], NoTarget, ops.p)
      [] opcode = 24 ->
           LET o == get_signed_word(b, q)
           IN  D("jumpRelative", [offset |-> o.v[2]], NoTarget, o.p)
      [] opcode \in {26, 154} ->
           LET t == get_var(b, q)
               value == VarOrWord(a1, b, t.p)
           IN  D("move", [value |-> value.v], t.v, value.p)
      [] opcode \in {29, 157} ->
           LET obj == VarOrWord(a1, b, q)
               cl == ClassLoop(b, obj.p, <<>>)
               o == get_signed_word(b, cl.p)
           IN  D("ifClassOfIs", [obj |-> obj.v, classes |-> cl.v, offset |-> o.v[2]], NoTarget, o.p)
      [] opcode \in {31, 95, 159, 223} ->
           LET act == VarOrByte(a1, b, q)
               box == VarOrByte(a2, b, act.p)
               o == get_signed_word(b, box.p)
           IN  D("isActorInBox", [act |-> act.v, box |-> box.v, offset |-> o.v[2]], NoTarget, o.p)
      [] opcode \in {36, 100, 164, 228} ->
           LET obj == VarOrWord(a1, b, q)
               room == VarOrByte(a2, b, obj.p)
               x == get_signed_word(b, room.p)
               y == get_signed_word(b, x.p)
           IN  D("loadRoomWithEgo", [obj |-> obj.v, room |-> room.v, x |-> x.v[2], y |-> y.v[2]],
                 NoTarget, y.p)
      [] opcode = 39 ->
           LET r == parse_stringops(b, q)
           IN  D("stringOps", [op |-> r.func, args |-> r.args], r.result, r.p)
      [] opcode \in {40, 168} ->
           LET a == get_var(b, q)
               o == get_signed_word(b, a.p)
           IN  D(IF opcode = 40 THEN "equalZero" ELSE "notEqualZero",
                 [a |-> a.v, offset |-> o.v[2]], NoTarget, o.p)
      [] opcode \in {45, 109, 173, 237} ->
           LET act == VarOrByte(a1, b, q)
               room == VarOrByte(a2, b, act.p)
           IN  D("putActorInRoom", [act |-> act.v, room |-> room.v], NoTarget, room.p)
      [] opcode \in {82, 210} ->
           LET act == VarOrByte(a1, b, q)
           IN  D("actorFollowCamera", [act |-> act.v], NoTarget, act.p)
      [] opcode \in {122, 250} ->
           LET verb == VarOrByte(a1, b, q)
               ops == parse_verbops(b, verb.p)
           IN  D("verbOps", [verb |-> verb.v, ops |-> ops.v], NoTarget, ops.p)
      [] opcode = 128 -> D("breakHere", <<>>, NoTarget, q)
      [] opcode = 216 ->
           LET r == parse_sostring(b, q)
           IN  D("printEgo", [string |-> r.v], NoTarget, r.p)
      [] opcode \in UnknownOpcodes -> D("unk", <<>>, NoTarget, q)
         \* an opcode the decoder names and this model does not cover
      [] OTHER -> D("unmodelled", <<>>, NoTarget, q)

\* get_v4_instr: the instruction at position p and the position after it; a
\* read past the end of the stream raises, which is end position > Len + 1
WithRaw(b, p, d) ==
    [ok |-> d.p <= Len(b) + 1,
     p |-> d.p,
     instr |-> [opcode |-> b[p], name |-> d.name, args |-> d.args, target |-> d.target,
                raw |-> IF d.p <= Len(b) + 1 THEN SubBytes(b, p, d.p - 1) ELSE <<>>]]

get_v4_instr(b, p) == WithRaw(b, p, DecodeBody(b, p))

HasOffset(instr) == "offset" \in DOMAIN instr.args

\* v4_instr_to_bytes: instructions the encoder knows are re-serialised from
\* their arguments, every other instruction is written as its raw bytes
v4_instr_to_bytes(instr) ==
    LET n == instr.name
        g == instr.args
    IN
    CASE n \in ComparisonNames ->
           <<ComparisonOpcode(n) + Flag(g.b, 128)>>
             \o (IF IsVar(g.a) THEN var_raw(g.a) ELSE ERR)
             \o RawOrWord(g.b) \o to_int16_le(g.offset)
      [] n \in {"ifState", "ifNotState"} ->
           <<(IF n = "ifState" THEN 15 ELSE 47) + Flag(g.obj, 128) + Flag(g.val, 64)>>
             \o RawOrWord(g.obj) \o RawOrByte(g.val) \o to_int16_le(g.offset)
      [] n = "print" ->
           <<20 + Flag(g.act, 128)>> \o RawOrByte(g.act) \o sostring_to_bytes(g.ops)
      [] n = "jumpRelative" -> <<24>> \o to_int16_le(g.offset)
      [] n = "move" ->
           <<26 + Flag(g.value, 128)>>
             \o (IF IsVar(instr.target) THEN var_raw(instr.target) ELSE ERR)
             \o RawOrWord(g.value)
      [] n = "ifClassOfIs" ->
           <<29 + Flag(g.obj, 128)>> \o RawOrWord(g.obj)
             \o Concat([i \in 1..Len(g.classes) |->
                          <<Flag(g.classes[i], 128)>> \o RawOrWord(g.classes[i])])
             \o <<255>> \o to_int16_le(g.offset)
      [] n = "isActorInBox" ->
           <<31 + Flag(g.act, 128) + Flag(g.box, 64)>>
             \o RawOrByte(g.act) \o RawOrByte(g.box) \o to_int16_le(g.offset)
      [] n = "stringOps" -> <<39>> \o stringops_to_bytes(g.op, g.args, instr.target)
      [] n \in {"equalZero", "notEqualZero"} ->
           <<IF n = "equalZero" THEN 40 ELSE 168>>
             \o (IF IsVar(g.a) THEN var_raw(g.a) ELSE ERR) \o to_int16_le(g.offset)
      [] n = "loadRoomWithEgo" ->
           <<36 + Flag(g.obj, 128) + Flag(g.room, 64)>>
             \o RawOrWord(g.obj) \o RawOrByte(g.room) \o to_int16_le(g.x) \o to_int16_le(g.y)
         \* the decoder reads the actor as a byte, the encoder writes a word
      [] n = "actorFollowCamera" -> <<82 + Flag(g.act, 128)>> \o RawOrWord(g.act)
      [] n = "verbOps" ->
           <<122 + Flag(g.verb, 128)>> \o RawOrByte(g.verb) \o verbops_to_bytes(g.ops)
      [] n = "printEgo" -> <<216>> \o sostring_to_bytes(g.string)
      [] OTHER -> instr.raw

----------------------------------------------------------------------------
(* Scripts: lists of (offset, instruction).                                *)

Entry(off, instr) == [off |-> off, instr |-> instr]

\* scumm_v4_tokenizer(data, offset): decode until the stream ends; with
\* dump_all = False also stop after the first stopObjectCode
RECURSIVE TokenizeLoop(_, _, _, _)
TokenizeStep(b, p, dump_all, acc, r) ==
    IF ~r.ok THEN [ok |-> FALSE, list |-> acc]
    ELSE IF ~dump_all /\ r.instr.name = "stopObjectCode"
         THEN [ok |-> TRUE, list |-> Append(acc, Entry(p - 1, r.instr))]
         ELSE TokenizeLoop(b, r.p, dump_all, Append(acc, Entry(p - 1, r.instr)))

TokenizeLoop(b, p, dump_all, acc) ==
    IF p > Len(b) THEN [ok |-> TRUE, list |-> acc]
    ELSE TokenizeStep(b, p, dump_all, acc, get_v4_instr(b, p))

scumm_v4_tokenizer(b, offset, dump_all) == TokenizeLoop(b, offset + 1, dump_all, <<>>)

\* list.index: the first position holding x, 0 when there is none (ValueError)
IndexOf(seq, x) ==
    IF \E i \in 1..Len(seq) : seq[i] = x
    THEN CHOOSE i \in 1..Len(seq) : seq[i] = x /\ \A j \in 1..(i - 1) : seq[j] # x
    ELSE 0

RECURSIVE SumLen(_, _)
SumLen(instrs, n) ==
    IF n = 0 THEN 0 ELSE SumLen(instrs, n - 1) + Len(v4_instr_to_bytes(instrs[n].instr))

old_bases(instrs) == [i \in 1..Len(instrs) |-> instrs[i].off]

\* pos = instrs[0][0]; per entry: new_bases.append(pos); pos += len(bytes)
RECURSIVE BasesFrom(_, _, _)
BasesFrom(instrs, pos, acc) ==
    IF Len(acc) = Len(instrs) THEN acc
    ELSE BasesFrom(instrs, pos + Len(v4_instr_to_bytes(instrs[Len(acc) + 1].instr)),
                   Append(acc, pos))

new_bases(instrs) == BasesFrom(instrs, instrs[1].off, <<>>)

\* an encoder without the nop filter
IsNop_unfiltered(instr) == FALSE

\* filter nops: instr.name == "jumpRelative" and instr.args["offset"] == 0
IsNop(instr) == instr.name = "jumpRelative" /\ instr.args.offset = 0

\* instructions whose offset instr_list_to_bytes rewrites
IsBranch(instr) == HasOffset(instr) /\ ~IsNop(instr)

\* target = off + len(v4_instr_to_bytes(instr)) + instr.args["offset"]
BranchTarget(e) == e.off + Len(v4_instr_to_bytes(e.instr)) + e.instr.args.offset

target_idx(instrs, i) == IndexOf(old_bases(instrs), BranchTarget(instrs[i]))

\* instr.args["offset"] = new_bases[target_idx] - len(instr.raw) - new_bases[i]
NewOffsetTo(instrs, i, bases, t) == bases[t] - Len(instrs[i].instr.raw) - bases[i]

NewOffsetAt(instrs, i, bases) == NewOffsetTo(instrs, i, bases, target_idx(instrs, i))

NewOffset(instrs, i) == NewOffsetAt(instrs, i, new_bases(instrs))

\* the bytes written for entry i, given the list of new bases
EmitBranch(instrs, i, bases, t) ==
    IF t = 0 THEN ERR
    ELSE v4_instr_to_bytes([instrs[i].instr EXCEPT
                               !.args.offset = NewOffsetTo(instrs, i, bases, t)])

EmitEntryAt(instrs, i, bases) ==
    IF IsBranch(instrs[i].instr)
    THEN CHOOSE out \in {EmitBranch(instrs, i, bases, t) : t \in {target_idx(instrs, i)}} : TRUE
    ELSE v4_instr_to_bytes(instrs[i].instr)

EmitEntry(instrs, i) == EmitEntryAt(instrs, i, new_bases(instrs))

EmitAll(instrs, bases) == Concat([i \in 1..Len(instrs) |-> EmitEntryAt(instrs, i, bases)])

\* instr_list_to_bytes: ERR when any step raises
instr_list_to_bytes(instrs) ==
    IF instrs = <<>> THEN ERR
    ELSE IF \E i \in 1..Len(instrs) : IsError(v4_instr_to_bytes(instrs[i].instr)) THEN ERR
    ELSE CHOOSE res \in {IF IsError(out) THEN ERR ELSE out :
                          out \in {EmitAll(instrs, bases) : bases \in {new_bases(instrs)}}} : TRUE

\* an encoding that leaves the new offset in the instruction
offset_kept(instrs, i, bases) ==
    [instrs[i] EXCEPT !.instr.args.offset = NewOffsetAt(instrs, i, bases)]

\* offset_old = instr.args["offset"]; instr.args["offset"] = ...; the bytes
\* are taken; instr.args["offset"] = offset_old
offset_restored(instrs, i, bases) ==
    LET offset_old == instrs[i].instr.args.offset
        encoding == [instrs[i] EXCEPT !.instr.args.offset = NewOffsetAt(instrs, i, bases)]
    IN  [encoding EXCEPT !.instr.args.offset = offset_old]

\* the list instr_list_to_bytes leaves behind: a branch it has encoded has
\* its offset put back; a missing target raises before the offset is set,
\* an encoding that raises leaves the new offset in; later entries are not
\* reached
instrs_after(instrs) ==
    IF instrs = <<>> \/ \E i \in 1..Len(instrs) : IsError(v4_instr_to_bytes(instrs[i].instr))
    THEN instrs
    ELSE CHOOSE res \in
             {LET fails == {i \in 1..Len(instrs) : IsError(EmitEntryAt(instrs, i, bases))}
                  reached(i) == \A j \in fails : i <= j
              IN  [i \in 1..Len(instrs) |->
                      IF ~IsBranch(instrs[i].instr) \/ ~reached(i) \/ target_idx(instrs, i) = 0
                      THEN instrs[i]
                      ELSE IF i \in fails
                           THEN [instrs[i] EXCEPT
                                    !.instr.args.offset = NewOffsetAt(instrs, i, bases)]
                           ELSE offset_restored(instrs, i, bases)] :
                 bases \in {new_bases(instrs)}} : TRUE

----------------------------------------------------------------------------
(* Sample scripts.  A script is a run of blocks followed by                *)
(* stopObjectCode; every branch of a block targets an instruction of the   *)
(* block or the instruction after it.                                      *)

MaxBlocks == 2

CoreBlocks == <<
    <<26, 19, 0, 5, 0>>,                              \* VAR[19] = 5
    <<72, 101, 0, 38, 0, 5, 0, 26, 1, 0, 7, 0>>,      \* isEqual(VAR[101], 38, +5); VAR[1] = 7
    <<72, 101, 0, 33, 0, 0, 0>>,                      \* isEqual(VAR[101], 33, +0)
    <<128, 24, 252, 255>>,                            \* breakHere; jumpRelative(-4)
    <<36, 10, 2, 28, 10, 0, 20, 0>>,                  \* loadRoomWithEgo(522, 28, 10, 20)
    <<82, 1>>,                                        \* actorFollowCamera(1)
    <<216, 15, 72, 105, 255, 3, 33, 0>>,              \* printEgo("Hi" wait "!")
    <<72, 101, 0, 1, 0, 6, 0, 10, 152, 255, 128, 128, 128>>,
                                                      \* isEqual(VAR[101], 1, +6); startScript(152); breakHere x3
    <<10, 200, 0, 1, 0, 255>>                         \* startScript(200, [1])
>>

ExtraBlocks == <<
    <<216, 15, 72, 254, 1, 0>>,                       \* printEgo("H" newline), 0xFE escape
    <<216, 15, 65, 255, 9, 1, 0, 0>>,                 \* printEgo("A" startAnim(1))
    <<216, 2, 10, 0, 255>>,                           \* printEgo(SO_CLIPPED 10)
    <<148, 1, 0, 15, 65, 0>>,                         \* print(VAR[1], "A")
    <<210, 1, 0>>,                                    \* actorFollowCamera(VAR[1])
    <<173, 1, 0, 28>>,                                \* putActorInRoom(VAR[1], 28)
    <<16, 1, 0, 193, 1>>,                             \* VAR[1] = getObjectOwner(449)
    <<122, 1, 6, 255>>,                               \* verbOps(1, SO_VERB_ON)
    <<122, 1, 22, 1, 0, 2, 255>>,                     \* verbOps(1, SO_VERB_ASSIGN_OBJECT(1, 2))
    <<29, 10, 0, 0, 5, 0, 255, 0, 0>>,                \* ifClassOfIs(10, [5], +0)
    <<40, 101, 0, 0, 0>>,                             \* equalZero(VAR[101], +0)
    <<168, 101, 0, 0, 0>>,                            \* notEqualZero(VAR[101], +0)
    <<31, 1, 2, 0, 0>>,                               \* isActorInBox(1, 2, +0)
    <<15, 10, 0, 1, 0, 0>>,                           \* ifState(10, 1, +0)
    <<47, 10, 0, 1, 0, 0>>,                           \* ifNotState(10, 1, +0)
    <<39, 1, 5, 65, 0>>,                              \* stringOps loadstring(5, "A")
    <<4, 101, 0, 3, 0, 0, 0>>,                        \* isGreaterEqual(VAR[101], 3, +0)
    <<200, 101, 0, 1, 0, 0, 0>>,                      \* isEqual(VAR[101], VAR[1], +0)
    <<102>>,                                          \* unk(0x66)
    <<72, 101, 0, 1, 0, 4, 0, 10, 152, 255, 128, 128, 128>>
                                                      \* isEqual(VAR[101], 1, +4); startScript(152); breakHere x3
>>

RECURSIVE BlockSeqs(_)
BlockSeqs(n) ==
    IF n = 0 THEN {<<>>}
    ELSE BlockSeqs(n - 1) \cup
         {Append(s, i) : s \in {t \in BlockSeqs(n - 1) : Len(t) = n - 1}, i \in 1..Len(CoreBlocks)}

SampleScripts ==
    {Concat([i \in 1..Len(s) |-> CoreBlocks[s[i]]]) \o <<0>> : s \in BlockSeqs(MaxBlocks) \ {<<>>}}
    \cup {ExtraBlocks[i] \o <<0>> : i \in 1..Len(ExtraBlocks)}

----------------------------------------------------------------------------
(* One script of the content tree under the mutators of cli.main.          *)

Home(room, kind, id) == [room |-> room, kind |-> kind, id |-> id]

\* the scripts the mutators address
Homes == {Home(10, "globals", 1), Home(35, "entry", 0), Home(85, "entry", 0),
          Home(38, "locals", 203)}

\* the part of the state a run over another part leaves alone
IdleScript ==
    /\ data = <<>> /\ script = <<>> /\ chunk = <<>>
    /\ status = "idle" /\ edits = <<>> /\ home = Home(0, "idle", 0)

IdleObject ==
    /\ oc = [events |-> <<>>, name |-> <<>>, data |-> <<>>]
    /\ verbs = <<>> /\ object_id = 0 /\ ostatus = "idle" /\ oedits = <<>>

IdleSave ==
    /\ archive = [fo |-> <<>>, lfs |-> <<>>]
    /\ master = [SC |-> <<>>, SO |-> <<>>, CO |-> <<>>]
    /\ content = <<>>
    /\ saved = FALSE
    /\ out_files = <<>>
    /\ save_error = FALSE
    /\ load_error = FALSE

IdleRooms ==
    /\ world = <<>> /\ links = <<>> /\ room_cluster = {} /\ room_links = <<>>
    /\ hubs = <<>> /\ dead_ends = <<>> /\ edges_left = <<>> /\ links_to_write = {}
    /\ rstatus = "idle"

IdleCli ==
    /\ cli_args = <<>> /\ runs = <<>>

IdleForest ==
    /\ forest = <<>> /\ forest_before = <<>> /\ forest_links = <<>>
    /\ forest_todo = <<>> /\ forest_data = <<>> /\ fstatus = "idle"

InitScript ==
    /\ IdleObject /\ IdleSave /\ IdleRooms /\ IdleCli /\ IdleForest
    /\ data \in SampleScripts
    /\ home \in Homes
    /\ script = scumm_v4_tokenizer(data, 0, TRUE).list
    /\ chunk = data
    /\ status = "loaded"
    /\ edits = <<>>

\* the order in which cli.main runs the mutators
Rank(m) ==
    CASE m \in {"fix_low_street", "fix_bridge_on_map"} -> 1
      [] m = "set_code_instr" -> 2
      [] m = "skip_code_wheel" -> 3
      [] m = "debug_mode" -> 4
      [] m = "turbo_mode" -> 5

\* an exception ends the run; every mutator runs at most once, in order
CanRun(m) ==
    /\ status # "failed"
    /\ \A k \in 1..Len(edits) : Rank(edits[k]) < Rank(m)

\* update_global_model, update_local_model, update_entry_model:
\* model.data = instr_list_to_bytes(src["script"])
StoreData(s, m, out) ==
    /\ script' = instrs_after(s)
    /\ edits' = Append(edits, m)
    /\ IF IsError(out)
       THEN status' = "failed" /\ chunk' = chunk
       ELSE status' = "written" /\ chunk' = out
    /\ UNCHANGED <<data, home>>
    /\ UNCHANGED <<objectVars, saveVars, roomsVars, cliVars, forestVars>>

update_script_model(s, m) == StoreData(s, m, instr_list_to_bytes(s))

nop == V4Instr(24, "jumpRelative", [offset |-> 0], NoTarget)

ReplaceInstr(s, i, instr) == [s EXCEPT ![i] = Entry(s[i].off, instr)]

IsImm(x) == x[1] = "imm"

fix_low_street ==
    /\ CanRun("fix_low_street")
    /\ home = Home(35, "entry", 0)
    /\ LET hit(e) == /\ e.instr.name = "isEqual"
                     /\ IsVar(e.instr.args.a) /\ e.instr.args.a[2] = 101
                     /\ e.instr.args.b \in {Imm(34), Imm(33)}
           s == [i \in 1..Len(script) |->
                    IF hit(script[i])
                    THEN [script[i] EXCEPT !.instr.args.b = Imm(0)]
                    ELSE script[i]]
       IN  /\ \E i \in 1..Len(script) : hit(script[i])
           /\ update_script_model(s, "fix_low_street")

fix_bridge_on_map ==
    /\ CanRun("fix_bridge_on_map")
    /\ home = Home(85, "entry", 0)
    /\ LET hit(e) == e.instr.name = "startScript" /\ e.instr.args.script = Imm(200)
           s == [i \in 1..Len(script) |->
                    IF hit(script[i]) THEN Entry(script[i].off, nop) ELSE script[i]]
       IN  /\ \E i \in 1..Len(script) : hit(script[i])
           /\ update_script_model(s, "fix_bridge_on_map")

\* a removal of three instructions instead of four
skip_code_wheel_three ==
    /\ CanRun("skip_code_wheel")
    /\ home = Home(10, "globals", 1)
    /\ LET hit(e) == e.instr.name = "startScript" /\ e.instr.args.script = Imm(152)
           hits == {i \in 1..Len(script) : hit(script[i])}
           first == CHOOSE i \in hits : \A j \in hits : i <= j
           s == IF hits = {} THEN script
                ELSE SubSeq(script, 1, first - 1) \o SubSeq(script, first + 3, Len(script))
       IN  update_script_model(s, "skip_code_wheel")

skip_code_wheel ==
    /\ CanRun("skip_code_wheel")
    /\ home = Home(10, "globals", 1)
    /\ LET hit(e) == e.instr.name = "startScript" /\ e.instr.args.script = Imm(152)
           hits == {i \in 1..Len(script) : hit(script[i])}
           first == CHOOSE i \in hits : \A j \in hits : i <= j
           s == IF hits = {} THEN script
                ELSE SubSeq(script, 1, first - 1) \o SubSeq(script, first + 4, Len(script))
       IN  update_script_model(s, "skip_code_wheel")

debug_mode ==
    /\ CanRun("debug_mode")
    /\ home = Home(10, "globals", 1)
    /\ update_script_model(
           <<Entry(0, V4Instr(25, "move", [value |-> Imm(1)], V4Var(39, -1)))>> \o script,
           "debug_mode")

turbo_mode ==
    /\ CanRun("turbo_mode")
    /\ home.kind \in {"globals", "locals"}
    /\ LET hit(e) == /\ e.instr.name = "move"
                     /\ IsVar(e.instr.target) /\ e.instr.target[2] = 19
                     /\ IsImm(e.instr.args.value)
           s == [i \in 1..Len(script) |->
                    IF hit(script[i])
                    THEN [script[i] EXCEPT !.instr.args.value = Imm(2)]
                    ELSE script[i]]
       IN  /\ \E i \in 1..Len(script) : hit(script[i])
           /\ update_script_model(s, "turbo_mode")

\* the replacement text of test_mod_intro, shortened
intro_text ==
    V4Instr(216, "printEgo",
            [string |-> <<SubOp("SO_TEXTSTRING",
                                [str |-> <<Token("text", <<"bytes", 73>>),
                                           Token("wait", <<"none">>),
                                           Token("text", <<"bytes", 94>>)>>])>>],
            NoTarget)

\* a link instruction decoded from another script, as exchange_links moves it
foreign_link == get_v4_instr(<<100, 66, 2, 5, 0, 1, 0, 2, 0>>, 1).instr

\* a jump built by a mutator to reach entry j from entry i
jump_to(s, i, j) ==
    V4Instr(24, "jumpRelative", [offset |-> s[j].off - (s[i].off + 3)], NoTarget)

Replacements(s, i) ==
    {nop, intro_text, foreign_link} \cup {jump_to(s, i, j) : j \in 1..Len(s)}

\* code[link["offset"]] = (code[link["offset"]][0], instr), then the writeback
\* of the script (test_mod_intro, write_changes_from_links)
set_code_instr ==
    /\ CanRun("set_code_instr")
    /\ home.kind = "locals"
    /\ \E i \in 1..Len(script) : \E instr \in Replacements(script, i) :
           update_script_model(ReplaceInstr(script, i, instr), "set_code_instr")

NextScript ==
    \/ fix_low_street
    \/ fix_bridge_on_map
    \/ set_code_instr
    \/ skip_code_wheel
    \/ debug_mode
    \/ turbo_mode

SpecScript == InitScript /\ [][NextScript]_vars

\* every sample decodes completely, by a case the model translates
DecodedInFull ==
    /\ scumm_v4_tokenizer(data, 0, TRUE).ok
    /\ \A i \in 1..Len(script) : script[i].instr.name # "unmodelled"

----------------------------------------------------------------------------
(* Properties of the script codec.                                         *)

\* the decoded list is the one the loader produced: no mutator changed it
Unmodified == script = scumm_v4_tokenizer(data, 0, TRUE).list

\* (offset, name, args, target) of every entry
Shape(list) ==
    [i \in 1..Len(list) |->
        <<list[i].off, list[i].instr.name, list[i].instr.args, list[i].instr.target>>]

Branches == {i \in 1..Len(script) : IsBranch(script[i].instr)}

\* where entry i starts in the written chunk
EmittedPos(i) == new_bases(script)[i] - script[1].off

EncodedLen(i) == Len(v4_instr_to_bytes(script[i].instr))

\* the offset field of branch i as it stands in the written chunk
EmittedOffset(i) == get_v4_instr(chunk, EmittedPos(i) + 1).instr.args.offset

\* entries the loader decoded, as opposed to the one debug_mode put in front
StoodBefore(k) == ~("debug_mode" \in {edits[n] : n \in 1..Len(edits)} /\ k = 1)

\* C1: writing back an instruction list no mutator modified yields exactly
\* the bytes it was decoded from (and does not raise).
C1_RoundTrip ==
    (Unmodified /\ edits # <<>>) => (status = "written" /\ chunk = data)

\* C2: decoding the bytes written for an unmodified list gives the same
\* (offset, name, args, target) sequence as decoding the original bytes.
C2_DecodeStable ==
    (Unmodified /\ status = "written") =>
        LET again == scumm_v4_tokenizer(chunk, 0, TRUE)
        IN  again.ok /\ Shape(again.list) = Shape(script)

\* C3: after a successful writeback every branch lands, in the written
\* bytes, on the start of the instruction that stood at its original target.
C3_TargetsOnBoundaries ==
    status = "written" =>
        \A i \in Branches :
            \E k \in 1..Len(script) :
                /\ StoodBefore(k)
                /\ script[k].off = BranchTarget(script[i])
                /\ EmittedPos(i) + EncodedLen(i) + EmittedOffset(i) = EmittedPos(k)

\* C4: the original target of a branch is its entry offset + len(raw) + its
\* offset, and the offset written is new target - new position - length of
\* the newly encoded instruction.
C4_RewriteFormula ==
    status = "written" =>
        \A i \in Branches :
            LET k == IndexOf(old_bases(script),
                             script[i].off + Len(script[i].instr.raw) + script[i].instr.args.offset)
            IN  /\ k # 0
                /\ EmittedOffset(i) = EmittedPos(k) - EmittedPos(i) - EncodedLen(i)

----------------------------------------------------------------------------
(* One object: the OC block, its verbs in the room map, and the handlers   *)
(* that edit verbs and rebuild the block.                                  *)

MaxVerbs == 2

\* verb code as stored in an OC data blob, each ending in stopObjectCode
VerbCodes == <<
    \* VAR[1] = getObjectOwner(449); isEqual(VAR[1], 1, +4); breakHere x4; loadRoomWithEgo
    <<16, 1, 0, 193, 1, 72, 1, 0, 1, 0, 4, 0, 128, 128, 128, 128,
      36, 10, 2, 28, 10, 0, 20, 0, 0>>,
    \* VAR[1] = getObjectOwner(449); isEqual(VAR[1], 1, +7); breakHere x7; loadRoomWithEgo
    <<16, 1, 0, 193, 1, 72, 1, 0, 1, 0, 7, 0, 128, 128, 128, 128, 128, 128, 128,
      36, 10, 2, 28, 10, 0, 20, 0, 0>>,
    <<36, 10, 2, 28, 10, 0, 20, 0, 0>>,               \* loadRoomWithEgo
    <<82, 1, 36, 10, 2, 28, 10, 0, 20, 0, 0>>,        \* actorFollowCamera(1); loadRoomWithEgo
    <<216, 15, 65, 255, 9, 1, 0, 0, 0>>,              \* printEgo("A" startAnim(1))
    <<72, 101, 0, 38, 0, 5, 0, 26, 1, 0, 7, 0, 0>>    \* isEqual(VAR[101], 38, +5); VAR[1] = 7
>>

VerbIds == <<10, 9, 11>>

ObjectNames == {<<>>, <<100, 111, 111, 114>>}

\* OC: 0x0D header bytes, 3 bytes per event and the 0x00 that ends them,
\* the name and its terminator; get_field_start_offset("data")
data_start(name, n) == 13 + 3 * n + 1 + (Len(name) + 1)

RECURSIVE SizeBefore(_, _)
SizeBefore(encs, i) == IF i = 1 THEN 0 ELSE SizeBefore(encs, i - 1) + Len(encs[i - 1])

\* a rebuild that gives every event the start of the blob
code_offset_unshifted(name, encs, i) == data_start(name, Len(encs)) + 6

\* events[i].code_offset = len(object_model.data) + start_offset
code_offset(name, encs, i) == SizeBefore(encs, i) + (data_start(name, Len(encs)) + 6)

ObjectEvent(verb_id, off) == [verb_id |-> verb_id, code_offset |-> off]

\* the OC block as read from the file, for verb codes laid end to end
LoadedObject(name, codes) ==
    [events |-> [i \in 1..Len(codes) |-> ObjectEvent(VerbIds[i], code_offset(name, codes, i))],
     name |-> name,
     data |-> Concat(codes)]

\* dump_all: verbs[ev.verb_id] = scumm_v4_tokenizer(data, ev.code_offset - start_offset,
\* dump_all=False)
LoadedVerbs(o) ==
    [i \in 1..Len(o.events) |->
        [verb |-> o.events[i].verb_id,
         code |-> scumm_v4_tokenizer(
                      o.data,
                      o.events[i].code_offset - (data_start(o.name, Len(o.events)) + 6),
                      FALSE).list]]

RECURSIVE CodeSeqs(_)
CodeSeqs(n) ==
    IF n = 0 THEN {<<>>}
    ELSE CodeSeqs(n - 1) \cup
         {Append(s, VerbCodes[i]) : s \in {t \in CodeSeqs(n - 1) : Len(t) = n - 1},
                                    i \in 1..Len(VerbCodes)}

InitObject ==
    /\ IdleScript /\ IdleSave /\ IdleRooms /\ IdleCli /\ IdleForest
    /\ object_id \in {669, 666, 428}
    /\ \E name \in ObjectNames, codes \in CodeSeqs(MaxVerbs) \ {<<>>} :
           oc = LoadedObject(name, codes)
    /\ verbs = LoadedVerbs(oc)
    /\ ostatus = "loaded"
    /\ oedits = <<>>

\* update_object_model: name and events are reset, then each verb is encoded
\* and appended in turn; an encoding that raises leaves the block as built
\* so far (later events keep the default code_offset 0)
RebuildObject(v, m, encs) ==
    LET n == Len(v)
        bad == {i \in 1..n : IsError(encs[i])}
        upto == IF bad = {} THEN n ELSE (CHOOSE i \in bad : \A j \in bad : i <= j) - 1
    IN  /\ verbs' = v
        /\ oedits' = Append(oedits, m)
        /\ oc' = [events |-> [i \in 1..n |->
                                ObjectEvent(v[i].verb,
                                            IF i <= upto THEN code_offset(oc.name, encs, i) ELSE 0)],
                  name |-> oc.name,
                  data |-> Concat(SubSeq(encs, 1, upto))]
        /\ ostatus' = IF bad = {} THEN "written" ELSE "failed"
        /\ UNCHANGED object_id
        /\ UNCHANGED <<scriptVars, saveVars, roomsVars, cliVars, forestVars>>

update_object_model(v, m) ==
    RebuildObject(v, m, [i \in 1..Len(v) |-> instr_list_to_bytes(v[i].code)])

\* src[i + k] = (src[i + k][0], nop()) for k < n; from k = 6 on the source
\* takes the offset of src[i + 5]
NopRun(code, i, n) ==
    [k \in 1..Len(code) |->
        IF k \in i..(i + n - 1)
        THEN Entry(code[IF k - i >= 6 THEN i + 5 ELSE k].off, nop)
        ELSE code[k]]

ObjectCanRun(m) ==
    /\ ostatus \notin {"failed", "idle"}
    /\ m \notin {oedits[k] : k \in 1..Len(oedits)}
    /\ m = "fix_damn_forest_block" => oedits = <<>>

\* objects 669 (six instructions blanked) and 666 (nine) of room 58, verb 10
fix_damn_forest_block ==
    /\ ObjectCanRun("fix_damn_forest_block")
    /\ object_id \in {669, 666}
    /\ LET v == CHOOSE k \in 1..Len(verbs) : verbs[k].verb = 10
           src == verbs[v].code
           hit(e) == e.instr.name = "getObjectOwner" /\ e.instr.args.obj = Imm(449)
           hits == {i \in 1..Len(src) : hit(src[i])}
           i == CHOOSE x \in hits : \A y \in hits : x <= y
           n == IF object_id = 669 THEN 6 ELSE 9
       IN  /\ hits # {}
           /\ IF i + n - 1 <= Len(src)
              THEN update_object_model([verbs EXCEPT ![v].code = NopRun(src, i, n)],
                                       "fix_damn_forest_block")
              ELSE \* IndexError: the run ends with the list partly blanked
                   /\ verbs' = [verbs EXCEPT ![v].code = NopRun(src, i, n)]
                   /\ ostatus' = "failed"
                   /\ oedits' = Append(oedits, "fix_damn_forest_block")
                   /\ UNCHANGED <<oc, object_id>>
                   /\ UNCHANGED <<scriptVars, saveVars, roomsVars, cliVars, forestVars>>

IsLink(e) == e.instr.name = "loadRoomWithEgo"

\* shuffle_rooms: the link instructions of the verbs in `moved` have been
\* exchanged for another script's, then every link source is written back
write_changes_from_links ==
    /\ ObjectCanRun("write_changes_from_links")
    /\ \E k \in 1..Len(verbs) : \E j \in 1..Len(verbs[k].code) : IsLink(verbs[k].code[j])
    /\ \E moved \in SUBSET (1..Len(verbs)) :
           update_object_model(
               [k \in 1..Len(verbs) |->
                   [verbs[k] EXCEPT !.code =
                       [j \in 1..Len(verbs[k].code) |->
                           IF k \in moved /\ IsLink(verbs[k].code[j])
                           THEN Entry(verbs[k].code[j].off, foreign_link)
                           ELSE verbs[k].code[j]]]],
               "write_changes_from_links")

NextObject ==
    \/ fix_damn_forest_block
    \/ write_changes_from_links

SpecObject == InitObject /\ [][NextObject]_vars

----------------------------------------------------------------------------
(* Properties of the object event table.                                   *)

EncodedVerb(i) == instr_list_to_bytes(verbs[i].code)

RECURSIVE EncodedBefore(_)
EncodedBefore(i) == IF i = 1 THEN 0 ELSE EncodedBefore(i - 1) + Len(EncodedVerb(i - 1))

\* C7: after update_object_model the event table has one entry per verb of
\* the room-map object, in order, and entry i's code_offset is (start of the
\* data field + 6) + the encoded size of the verbs before it, where verb
\* i's code starts in the rebuilt data.
C7_EventTable ==
    ostatus = "written" =>
        /\ Len(oc.events) = Len(verbs)
        /\ \A i \in 1..Len(verbs) :
              LET field == 13 + 3 * Len(oc.events) + 1 + Len(oc.name) + 1
                  at == EncodedBefore(i)
              IN  /\ oc.events[i].verb_id = verbs[i].verb
                  /\ oc.events[i].code_offset = (field + 6) + at
                  /\ SubBytes(oc.data, at + 1, at + Len(EncodedVerb(i))) = EncodedVerb(i)

\* a rebuilt object of two verbs whose first verb changed size
C7_Witness ==
    /\ ostatus = "written"
    /\ oedits = <<"fix_damn_forest_block">>
    /\ Len(verbs) = 2
    /\ oc.events[2].code_offset > oc.events[1].code_offset
    /\ oc.name # <<>>

----------------------------------------------------------------------------
(* The resource files: one LEC archive (an LE holding the FO table and the *)
(* room LFs), the master index of 000.LFL, and save_all.  A chunk is       *)
(* [tag, size], size being the length of its body; ids index the tables    *)
(* from 1.                                                                 *)

MaxRooms == 2

RoomIds == <<10, 33, 58>>

LFShapes == {<<"RO", "SC", "CO">>, <<"SC", "SO", "RO", "SC">>}

\* lengths a chunk body takes when a writeback replaces its data
DataSizes == {2, 5}

\* ChunkField, length_before_id, id_size 2: a chunk is 6 bytes and its body;
\* get_field_start_offset("chunks", k) for bodies of the given sizes
RECURSIVE chunk_start(_, _, _)
chunk_start(sizes, k, base) ==
    IF k = 1 THEN base ELSE chunk_start(sizes, k - 1, base) + 6 + sizes[k - 1]

\* LF: UInt16 id, then the chunks
lf_start(lf, k) == chunk_start([n \in 1..Len(lf.chunks) |-> lf.chunks[n].size], k, 2)

\* LE: the FO chunk (count byte, 5 bytes per entry), then the LF chunks
le_start(a, j) ==
    chunk_start(<<1 + 5 * Len(a.fo)>>
                  \o [n \in 1..Len(a.lfs) |-> lf_start(a.lfs[n], Len(a.lfs[n].chunks) + 1)],
                j, 0)

\* save_all with the loader's +2 left out
master_offset_unadjusted(lf, k) == lf_start(lf, k)

\* save_all: room_model.get_field_start_offset("chunks", index) - 2
master_offset(lf, k) == lf_start(lf, k) - 2

\* save_all with the LE header left out
fo_offset_in_le(a, j) == le_start(a, j)

\* save_all: LE.get_field_start_offset("chunks", room["index"][1]) + 6
fo_offset(a, j) == le_start(a, j) + 6

\* GLOBAL_*_MAP.get((room, start)): the last id whose (room_id, offset + 2) is
\* the key, 0 when there is none
IndexId(table, room, start) ==
    LET hits == {i \in 1..Len(table) : table[i].room_id = room /\ table[i].offset + 2 = start}
    IN  IF hits = {} THEN 0 ELSE CHOOSE i \in hits : \A h \in hits : h <= i

\* the id -> chunk index dict dump_all builds for the chunks of one tag
Resources(table, lf, tag) ==
    LET id(k) == IndexId(table, lf.id, lf_start(lf, k))
        ks == {k \in 1..Len(lf.chunks) : lf.chunks[k].tag = tag /\ id(k) # 0}
    IN  [i \in {id(k) : k \in ks} |-> CHOOSE k \in ks : id(k) = i]

\* GLOBAL_COSTUME_MAP[costume_idx], GLOBAL_SOUND_MAP[sound_idx]: a CO or SO
\* chunk the master index does not list raises KeyError
dump_all_raises(a, m) ==
    \E j \in 1..Len(a.lfs) : \E k \in 1..Len(a.lfs[j].chunks) :
        \/ /\ a.lfs[j].chunks[k].tag = "CO"
           /\ IndexId(m.CO, a.lfs[j].id, lf_start(a.lfs[j], k)) = 0
        \/ /\ a.lfs[j].chunks[k].tag = "SO"
           /\ IndexId(m.SO, a.lfs[j].id, lf_start(a.lfs[j], k)) = 0

\* the room map of a load that does not raise; an SC chunk the master index
\* does not list is left out (GLOBAL_SCRIPT_MAP.get, warning, continue)
dump_all(a, m) ==
    [room \in {a.lfs[j].id : j \in 1..Len(a.lfs)} |->
        LET j == CHOOSE n \in 1..Len(a.lfs) : a.lfs[n].id = room
        IN  [index |-> j + 1,
             globals |-> Resources(m.SC, a.lfs[j], "SC"),
             sounds |-> Resources(m.SO, a.lfs[j], "SO"),
             costumes |-> Resources(m.CO, a.lfs[j], "CO")]]

\* an index table as the game ships it: slot 4 (j - 1) + k is chunk k of
\* room j when that chunk has the tag, an unused slot otherwise
ShippedTable(lfs, tag, unlisted) ==
    [i \in 1..(4 * Len(lfs)) |->
        LET j == ((i - 1) \div 4) + 1
            k == ((i - 1) % 4) + 1
        IN  IF /\ k <= Len(lfs[j].chunks)
               /\ lfs[j].chunks[k].tag = tag
               /\ <<tag, j, k>> \notin unlisted
            THEN [room_id |-> lfs[j].id, offset |-> lf_start(lfs[j], k) - 2]
            ELSE [room_id |-> 0, offset |-> 0]]

ShippedArchive(shapes) ==
    LET lfs == [j \in 1..Len(shapes) |->
                   [id |-> RoomIds[j],
                    chunks |-> [k \in 1..Len(shapes[j]) |-> [tag |-> shapes[j][k], size |-> 2]]]]
        bare == [fo |-> [j \in 1..Len(shapes) |-> [room_id |-> RoomIds[j], offset |-> 0]],
                 lfs |-> lfs]
    IN  [bare EXCEPT !.fo = [j \in 1..Len(shapes) |->
                                [room_id |-> RoomIds[j], offset |-> le_start(bare, j + 1) + 6]]]

\* the files save_all writes, in the order it writes them
SaveFiles == {"000.LFL", "DISK01.LEC", "DISK02.LEC", "DISK03.LEC", "DISK04.LEC"}

SaveOrder == <<"000.LFL", "DISK01.LEC", "DISK02.LEC", "DISK03.LEC", "DISK04.LEC">>

\* with open(path / k, "wb") as f: f.write(export_data()) for each file in
\* turn.  `failing` is the file at which the run raises (0: none); open()
\* raising leaves that file as it was, export_data() or write() raising
\* leaves it opened for writing, that is created or truncated.
written_files(before, failing, opened) ==
    [f \in SaveFiles |->
        LET n == CHOOSE i \in 1..Len(SaveOrder) : SaveOrder[i] = f
        IN  IF failing = 0 \/ n < failing THEN "new"
            ELSE IF n = failing /\ opened THEN "empty"
            ELSE before[f]]

\* chunks <<tag, room, chunk>> of the archive the master index does not list
Unlisted == {{}, {<<"SC", 1, 1>>, <<"SC", 1, 2>>}, {<<"CO", 1, 3>>}, {<<"SO", 1, 2>>}}

InitSave ==
    /\ IdleScript /\ IdleObject /\ IdleRooms /\ IdleCli /\ IdleForest
    /\ \E n \in 1..MaxRooms : \E shapes \in [1..n -> LFShapes] :
          \E unlisted \in Unlisted :
             /\ archive = ShippedArchive(shapes)
             /\ master = [t \in {"SC", "SO", "CO"} |-> ShippedTable(archive.lfs, t, unlisted)]
    /\ load_error = dump_all_raises(archive, master)
    /\ content = IF load_error THEN <<>> ELSE dump_all(archive, master)
    /\ saved = FALSE
    /\ \E before \in {"absent", "old"} : out_files = [f \in SaveFiles |-> before]
    /\ save_error = FALSE

\* the LF of a room of the room map, by its index in the LE
room_model(room) == archive.lfs[content[room].index - 1]

\* the table after save_all: ref.offset = new_offset for every id of the
\* room map's dict `kind`
RepairedTable(table, kind, a) ==
    [id \in 1..Len(table) |->
        IF \E room \in DOMAIN content : id \in DOMAIN content[room][kind]
        THEN LET room == CHOOSE r \in DOMAIN content : id \in DOMAIN content[r][kind]
             IN  [table[id] EXCEPT
                    !.offset = master_offset(a.lfs[content[room].index - 1],
                                             content[room][kind][id])]
        ELSE table[id]]

\* a writeback that repairs the 0S table on the spot
SetChunkData_repairing(room, k, size) ==
    /\ ~saved /\ ~save_error /\ ~load_error
    /\ size # room_model(room).chunks[k].size
    /\ archive' = [archive EXCEPT !.lfs[content[room].index - 1].chunks[k].size = size]
    /\ master' = [master EXCEPT !.SC = RepairedTable(master.SC, "globals", archive')]
    /\ UNCHANGED <<content, saved, out_files, save_error, load_error>>
    /\ UNCHANGED <<scriptVars, objectVars, roomsVars, cliVars, forestVars>>

\* model.data = ...: chunk k of the room's LF takes a body of another length
SetChunkData(room, k, size) ==
    /\ ~saved /\ ~save_error /\ ~load_error
    /\ size # room_model(room).chunks[k].size
    /\ archive' = [archive EXCEPT !.lfs[content[room].index - 1].chunks[k].size = size]
    /\ UNCHANGED <<master, content, saved, out_files, save_error, load_error>>
    /\ UNCHANGED <<scriptVars, objectVars, roomsVars, cliVars, forestVars>>

\* update_global_model: the SC chunk of a global script of the room map
update_global_model ==
    \E room \in DOMAIN content : \E id \in DOMAIN content[room].globals :
        \E size \in DataSizes : SetChunkData(room, content[room].globals[id], size)

\* update_local_model, update_object_model, update_entry_model,
\* update_exit_model: a chunk inside the room's RO, whose body changes length
update_local_model ==
    \E room \in DOMAIN content : \E k \in 1..Len(room_model(room).chunks) :
        \E size \in DataSizes :
            /\ room_model(room).chunks[k].tag = "RO"
            /\ SetChunkData(room, k, size)

save_all ==
    /\ ~saved /\ ~save_error /\ ~load_error
    /\ \E failing \in 0..Len(SaveOrder) : \E opened \in BOOLEAN :
          /\ failing = 0 => opened
          /\ out_files' = written_files(out_files, failing, opened)
          /\ saved' = (failing = 0)
          /\ save_error' = (failing # 0)
    /\ master' = [SC |-> RepairedTable(master.SC, "globals", archive),
                  SO |-> RepairedTable(master.SO, "sounds", archive),
                  CO |-> RepairedTable(master.CO, "costumes", archive)]
    /\ archive' = [archive EXCEPT !.fo =
                      [n \in 1..Len(archive.fo) |->
                          IF archive.fo[n].room_id \in DOMAIN content
                          THEN [archive.fo[n] EXCEPT
                                  !.offset = fo_offset(archive,
                                                       content[archive.fo[n].room_id].index)]
                          ELSE archive.fo[n]]]
    /\ UNCHANGED <<content, load_error>>
    /\ UNCHANGED <<scriptVars, objectVars, roomsVars, cliVars, forestVars>>

NextSave ==
    \/ update_global_model
    \/ update_local_model
    \/ save_all

SpecSave == InitSave /\ [][NextSave]_vars

----------------------------------------------------------------------------
(* Properties of the saved tables.                                         *)

\* where chunk k of an LF, and LF j of the archive, start when every body
\* has the length the game ships
ShippedStart(lf, k) == 2 + 8 * (k - 1)

\* position of LF j in the written archive: the LE header, the FO chunk and
\* the LF chunks before it
RECURSIVE LFPosition(_)
LFPosition(j) ==
    IF j = 1 THEN 6 + (6 + 1 + 5 * Len(archive.fo))
    ELSE LFPosition(j - 1) + 6 + lf_start(archive.lfs[j - 1], Len(archive.lfs[j - 1].chunks) + 1)

\* C5: after save_all every global script, sound and costume id of the room
\* map has, in its 0S/0N/0C entry, the start of its chunk in the room's LF
\* less 2, so that loading the saved files gives the same room map.
C5_MasterIndex ==
    saved =>
        /\ dump_all(archive, master) = content
        /\ \A room \in DOMAIN content : \A id \in DOMAIN content[room].globals :
              /\ master.SC[id].room_id = room
              /\ master.SC[id].offset + 2 = lf_start(room_model(room), content[room].globals[id])
        /\ \A room \in DOMAIN content : \A id \in DOMAIN content[room].sounds :
              master.SO[id].offset + 2 = lf_start(room_model(room), content[room].sounds[id])
        /\ \A room \in DOMAIN content : \A id \in DOMAIN content[room].costumes :
              master.CO[id].offset + 2 = lf_start(room_model(room), content[room].costumes[id])

\* saved, with a global script and a costume that moved inside their LF
C5_Witness ==
    /\ saved
    /\ \E room \in DOMAIN content :
          /\ \E id \in DOMAIN content[room].globals :
                master.SC[id].offset + 2 # ShippedStart(room_model(room), content[room].globals[id])
          /\ \E id \in DOMAIN content[room].costumes :
                master.CO[id].offset + 2 # ShippedStart(room_model(room), content[room].costumes[id])

\* C6: after save_all the FO entry of every room of the room map holds the
\* position of the room's LF in the archive as the LFs before it now are.
C6_FileOffsets ==
    saved =>
        \A j \in 1..Len(archive.lfs) :
            /\ archive.lfs[j].id \in DOMAIN content
            /\ \E n \in 1..Len(archive.fo) : archive.fo[n].room_id = archive.lfs[j].id
            /\ \A n \in 1..Len(archive.fo) :
                  archive.fo[n].room_id = archive.lfs[j].id => archive.fo[n].offset = LFPosition(j)

\* saved, with a room whose LF moved because an earlier LF changed size
C6_Witness ==
    /\ saved
    /\ Len(archive.lfs) >= 2
    /\ lf_start(archive.lfs[1], Len(archive.lfs[1].chunks) + 1)
         # ShippedStart(archive.lfs[1], Len(archive.lfs[1].chunks) + 1)
    /\ archive.fo[2].offset = LFPosition(2)

----------------------------------------------------------------------------
(* The room-link rewriter (mod_rooms.py): link extraction.                 *)

\* the two room classes find_room_links excludes
MI1EGA_ROOM_CLASS ==
    [card |-> {90, 96, 10, 97, 98, 95, 94},
     closeup |-> {44, 83, 42, 79, 82, 81, 23, 45, 89, 62, 49, 60, 76, 88, 51, 37, 50,
                  84, 87, 86}]

IScriptRef(type, room, id, verb) == [type |-> type, room |-> room, id |-> id, verb |-> verb]

\* the link record of instruction x at index i (0-based) of a script; the
\* target id is the obj argument, or -1 for putActorInRoom
IRoomLink(i, source, x) ==
    [offset |-> i,
     source |-> source,
     target |-> IScriptRef("object", x.args.room[2],
                           IF x.name = "loadRoomWithEgo" THEN x.args.obj[2] ELSE -1,
                           source.verb),
     op |-> x.name,
     code_room |-> source.room]

\* the loop of find_room_links over a script, with the table of room
\* classes it consults
scan_room_links(classes, room_id, script_type, obj_id, verb_id, instr_list) ==
    LET RECURSIVE scan(_, _)
        scan(i, result) ==
            IF i > Len(instr_list) THEN result
            ELSE LET x == instr_list[i].instr
                     is_int == "room" \in DOMAIN x.args /\ IsImm(x.args.room)
                     target == x.args.room[2]
                     link == IRoomLink(i - 1, IScriptRef(script_type, room_id, obj_id, verb_id), x)
                 IN  IF ~is_int THEN scan(i + 1, result)
                     ELSE IF target = room_id THEN scan(i + 1, result)
                     ELSE IF target = 0 THEN scan(i + 1, result)
                     ELSE IF target >= 200 THEN scan(i + 1, result)
                     ELSE IF room_id \in classes.closeup THEN <<>>
                     ELSE IF target \in classes.closeup THEN scan(i + 1, result)
                     ELSE IF room_id \in classes.card THEN <<>>
                     ELSE IF target \in classes.card THEN scan(i + 1, result)
                     ELSE IF x.name = "loadRoomWithEgo" THEN scan(i + 1, Append(result, link))
                     ELSE IF x.name = "putActorInRoom" /\ x.args.act = <<"var", 1, -1>>
                          THEN scan(i + 1, Append(result, link))
                     ELSE scan(i + 1, result)
    IN  scan(1, <<>>)

\* find_room_links with the closeup and the card checks left out
find_room_links_unclassified(room_id, script_type, obj_id, verb_id, instr_list) ==
    scan_room_links([card |-> {}, closeup |-> {}],
                    room_id, script_type, obj_id, verb_id, instr_list)

find_room_links(room_id, script_type, obj_id, verb_id, instr_list) ==
    scan_room_links(MI1EGA_ROOM_CLASS, room_id, script_type, obj_id, verb_id, instr_list)

\* the verbs of the objects and the local scripts of every room, in the
\* order of the room map; global scripts are not searched
generate_room_links(w) ==
    Concat([k \in 1..Len(w) |->
               IF w[k].type \in {"object", "local"}
               THEN find_room_links(w[k].room, w[k].type, w[k].id, w[k].verb, w[k].code)
               ELSE <<>>])

\* find_link matching the room alone
find_link_any_exit(l, rl, room, obj) ==
    SelectSeq(rl, LAMBDA k : l[k].source.room = room)

\* find_link, find_link_inverse work on room_links: rl holds indexes into l
find_link(l, rl, room, obj) ==
    SelectSeq(rl, LAMBDA k : l[k].source.room = room /\ l[k].source.id = obj)

\* an inverse that takes every link leaving the target room
find_link_inverse_room(l, rl, room, obj) ==
    LET sources == find_link(l, rl, room, obj)
    IN  Concat([n \in 1..Len(sources) |->
                   SelectSeq(rl, LAMBDA k : l[k].source.room = l[sources[n]].target.room)])

\* per source link: the links leaving its target exit, then every link of
\* a local script of the target room
find_link_inverse(l, rl, room, obj) ==
    LET sources == find_link(l, rl, room, obj)
    IN  Concat([n \in 1..Len(sources) |->
                   LET x == l[sources[n]]
                   IN  find_link(l, rl, x.target.room, x.target.id)
                       \o SelectSeq(rl, LAMBDA k : /\ l[k].source.room = x.target.room
                                                   /\ l[k].source.type = "local")])

\* the rooms a walk over the links reaches from start_room; start_room
\* itself only when a link leads back to it
find_room_cluster(l, start_room) ==
    LET RECURSIVE find_rooms(_)
        find_rooms(result) ==
            LET more == {l[k].target.room :
                            k \in {j \in 1..Len(l) : \/ l[j].source.room = start_room
                                                     \/ l[j].source.room \in result}}
            IN  IF more \subseteq result THEN result ELSE find_rooms(result \cup more)
    IN  find_rooms({})

----------------------------------------------------------------------------
(* Sample worlds: rooms of Melee Island joined by two-way passages.        *)

\* most passages of a sample world
MaxPassages == 4

Script(room, type, id, verb, code) ==
    [room |-> room, type |-> type, id |-> id, verb |-> verb, code |-> code]

\* loadRoomWithEgo(obj, room, 0, 0) with a literal or variable room
loadRoomWithEgo(obj, room) ==
    V4Instr(36, "loadRoomWithEgo", [obj |-> Imm(obj), room |-> room, x |-> 0, y |-> 0], NoTarget)

putActorInRoom(act, room) ==
    V4Instr(45, "putActorInRoom", [act |-> act, room |-> Imm(room)], NoTarget)

\* an exit object: verb 10 loads room b at object ib
ExitObject(a, ia, b, ib) ==
    Script(a, "object", ia, 10, <<Entry(0, loadRoomWithEgo(ib, Imm(b)))>>)

\* <<room, exit object, room, exit object>>: dock 33, bar 28, low street 35,
\* lookout 38, map 85
Passages ==
    << <<33, 1, 28, 1>>, <<33, 2, 35, 1>>, <<33, 3, 38, 1>>, <<38, 2, 85, 1>>,
       <<28, 4, 35, 3>> >>

\* the map: the one-way walk to the dock, the troll bridge 57 entered from
\* both sides, and local script 200 that boots ego onto the bridge
MapScripts ==
    << ExitObject(85, 2, 33, 1),
       ExitObject(85, 3, 57, 1), ExitObject(57, 1, 85, 3),
       ExitObject(85, 4, 57, 2), ExitObject(57, 2, 85, 4),
       Script(85, "local", 200, -1, <<Entry(0, putActorInRoom(<<"var", 1, -1>>, 57))>>) >>

\* an exit run by a local script: object 4 of room 35 starts local script
\* 200, which loads room 34; the way back is an exit object of room 34
ScriptExit ==
    << Script(35, "local", 200, -1, <<Entry(0, loadRoomWithEgo(3, Imm(34)))>>),
       ExitObject(34, 3, 35, 4) >>

\* scripts whose room arguments are no exits: a closeup, a title card, room
\* 0, a forest subroom, the room itself, a variable room, an actor other
\* than ego, a closeup's and a card's own scripts, a global script
OtherScripts ==
    << Script(33, "object", 9, 10,
              << Entry(0, loadRoomWithEgo(1, Imm(44))), Entry(8, loadRoomWithEgo(1, Imm(90))),
                 Entry(16, loadRoomWithEgo(1, Imm(0))), Entry(24, loadRoomWithEgo(1, Imm(201))),
                 Entry(32, loadRoomWithEgo(1, Imm(33))),
                 Entry(40, loadRoomWithEgo(1, <<"var", 5, -1>>)),
                 Entry(48, putActorInRoom(Imm(3), 28)), Entry(51, nop) >>),
       Script(44, "object", 1, 10, <<Entry(0, loadRoomWithEgo(9, Imm(33)))>>),
       Script(90, "local", 200, -1,
              <<Entry(0, loadRoomWithEgo(1, Imm(44))), Entry(8, loadRoomWithEgo(9, Imm(33)))>>),
       Script(33, "global", 1, -1, <<Entry(0, loadRoomWithEgo(1, Imm(28)))>>) >>

\* exit 4 of the bar leads to low street by a second verb as well
SecondVerb == <<Script(28, "object", 4, 11, <<Entry(0, loadRoomWithEgo(3, Imm(35)))>>)>>

WorldOf(chosen, scripted) ==
    OtherScripts
    \o Concat([i \in 1..Len(Passages) |->
                  IF i \in chosen
                  THEN <<ExitObject(Passages[i][1], Passages[i][2], Passages[i][3], Passages[i][4]),
                         ExitObject(Passages[i][3], Passages[i][4], Passages[i][1], Passages[i][2])>>
                  ELSE <<>>])
    \o (IF 4 \in chosen THEN MapScripts ELSE <<>>)
    \o (IF 5 \in chosen THEN SecondVerb ELSE <<>>)
    \o (IF scripted THEN ScriptExit ELSE <<>>)

\* the worlds of at most MaxPassages passages, the scripted exit counted
Worlds ==
    {WorldOf(chosen, FALSE) :
        chosen \in {c \in SUBSET (1..Len(Passages)) : Cardinality(c) <= MaxPassages}}
    \cup
    {WorldOf(chosen, TRUE) :
        chosen \in {c \in SUBSET (1..Len(Passages)) : Cardinality(c) + 1 <= MaxPassages}}

InitRooms ==
    /\ IdleScript /\ IdleObject /\ IdleSave /\ IdleCli /\ IdleForest
    /\ world \in Worlds
    /\ links = <<>> /\ room_cluster = {} /\ room_links = <<>>
    /\ hubs = <<>> /\ dead_ends = <<>> /\ edges_left = <<>> /\ links_to_write = {}
    /\ rstatus = "loaded"

----------------------------------------------------------------------------
(* The main-world shuffle (mod_rooms.shuffle_rooms).                       *)

Range(seq) == {seq[n] : n \in 1..Len(seq)}

\* ascending list of a set of numbers
RECURSIVE sorted(_)
sorted(set) ==
    IF set = {} THEN <<>>
    ELSE LET least == CHOOSE x \in set : \A y \in set : x <= y
         IN  <<least>> \o sorted(set \ {least})

\* a remove that leaves the list as it is
remove_nothing(seq, x) == seq

\* list.remove: the list without its first element equal to x
remove(seq, x) ==
    LET n == CHOOSE i \in 1..Len(seq) : seq[i] = x /\ \A j \in 1..(i - 1) : seq[j] # x
    IN  SubSeq(seq, 1, n - 1) \o SubSeq(seq, n + 1, Len(seq))

\* get_code: the script a link was found in, as its index in the world
get_code(w, link) ==
    CHOOSE k \in 1..Len(w) : /\ w[k].room = link.code_room
                             /\ w[k].type = link.source.type
                             /\ w[k].id = link.source.id
                             /\ w[k].verb = link.source.verb

\* an exchange that leaves the links of b as they were
exchange_multilinks_one_way(st, a, b) ==
    IF ~st.ok \/ a = <<>> \/ b = <<>> THEN [st EXCEPT !.ok = FALSE]
    ELSE LET w == st.world
             l == st.links
             dest_instr == w[get_code(w, l[b[1]])].code[l[b[1]].offset + 1].instr
             at(k, j, ns) == \E n \in Range(ns) : get_code(w, l[n]) = k /\ l[n].offset + 1 = j
         IN  [world |-> [k \in 1..Len(w) |->
                            [w[k] EXCEPT !.code =
                                [j \in 1..Len(w[k].code) |->
                                    IF at(k, j, a) THEN Entry(w[k].code[j].off, dest_instr)
                                    ELSE w[k].code[j]]]],
              links |-> [n \in 1..Len(l) |->
                            IF n \in Range(a) THEN [l[n] EXCEPT !.target = l[b[1]].target]
                            ELSE l[n]],
              ok |-> TRUE]

\* st = [world, links, ok]; every link of a takes the instruction and the
\* target of b[0], then every link of b those a[0] had; an empty list fails
\* the assertion before anything is changed
exchange_multilinks(st, a, b) ==
    IF ~st.ok \/ a = <<>> \/ b = <<>> THEN [st EXCEPT !.ok = FALSE]
    ELSE LET w == st.world
             l == st.links
             src_instr == w[get_code(w, l[a[1]])].code[l[a[1]].offset + 1].instr
             dest_instr == w[get_code(w, l[b[1]])].code[l[b[1]].offset + 1].instr
             at(k, j, ns) == \E n \in Range(ns) : get_code(w, l[n]) = k /\ l[n].offset + 1 = j
         IN  [world |-> [k \in 1..Len(w) |->
                            [w[k] EXCEPT !.code =
                                [j \in 1..Len(w[k].code) |->
                                    IF at(k, j, b) THEN Entry(w[k].code[j].off, src_instr)
                                    ELSE IF at(k, j, a) THEN Entry(w[k].code[j].off, dest_instr)
                                    ELSE w[k].code[j]]]],
              links |-> [n \in 1..Len(l) |->
                            IF n \in Range(b) THEN [l[n] EXCEPT !.target = l[a[1]].target]
                            ELSE IF n \in Range(a) THEN [l[n] EXCEPT !.target = l[b[1]].target]
                            ELSE l[n]],
              ok |-> TRUE]

\* one pass of the loop body once both exits are chosen: the four link
\* lists are looked up, then the two exchanges are made in turn (every
\* value is drawn from a one-element set so that it is computed once)
bind_edges(orig_edge, new_edge) ==
    LET exchanged(orig_link, hub_link, orig_link_end, hub_link_end) ==
            CHOOSE r \in
                {[world |-> second.world, links |-> second.links, ok |-> second.ok,
                  written |-> orig_link \o hub_link \o hub_link_end \o orig_link_end] :
                    second \in
                        {exchange_multilinks(first, hub_link, orig_link_end) :
                            first \in {exchange_multilinks(
                                          [world |-> world, links |-> links, ok |-> TRUE],
                                          orig_link, hub_link_end)}}} : TRUE
    IN  CHOOSE r \in
            {exchanged(orig_link, hub_link, orig_link_end, hub_link_end) :
                orig_link \in {find_link(links, room_links, orig_edge[1], orig_edge[2])},
                hub_link \in {find_link(links, room_links, new_edge[1], new_edge[2])},
                orig_link_end \in
                    {find_link_inverse(links, room_links, orig_edge[1], orig_edge[2])},
                hub_link_end \in
                    {find_link_inverse(links, room_links, new_edge[1], new_edge[2])}} : TRUE

\* the state after a pass that bound two exits: an exception ends the run
\* with what the pass had changed by then
Bound(st, edges, new_edges, h, d) ==
    /\ world' = st.world
    /\ links' = st.links
    /\ hubs' = h
    /\ dead_ends' = d
    /\ edges_left' = IF st.ok THEN edges \o new_edges ELSE edges
    /\ links_to_write' = IF st.ok THEN links_to_write \cup Range(st.written) ELSE links_to_write
    /\ rstatus' = IF st.ok THEN "shuffling" ELSE "failed"
    /\ UNCHANGED <<room_cluster, room_links>>
    /\ UNCHANGED <<scriptVars, objectVars, saveVars, cliVars, forestVars>>

\* a pop that leaves the room in the mapping
Without_keeping(f, k) == f

\* dict.pop: the mapping without key k
Without(f, k) == [x \in DOMAIN f \ {k} |-> f[x]]

\* an exception before anything was exchanged in this pass
Raise ==
    /\ rstatus' = "failed"
    /\ UNCHANGED <<world, links, room_cluster, room_links, hubs, dead_ends, edges_left,
                   links_to_write>>
    /\ UNCHANGED <<scriptVars, objectVars, saveVars, cliVars, forestVars>>

\* get_rooms_and_exits: the exit ids of every room the links name
exit_nodes(l, rl) ==
    [r \in {l[k].source.room : k \in Range(rl)} \cup {l[k].target.room : k \in Range(rl)} |->
        {l[k].source.id : k \in {n \in Range(rl) : l[n].source.room = r}}]

\* the rooms with `many` (or else with exactly one) destination over all links
rooms_by_exits(l, rl, cluster, many) ==
    {r \in DOMAIN exit_nodes(l, rl) :
        LET dest_rooms == {l[k].target.room : k \in {n \in 1..Len(l) : l[n].source.room = r}}
        IN  /\ r \in cluster
            /\ IF many THEN Cardinality(dest_rooms) > 1 ELSE Cardinality(dest_rooms) = 1}

\* lines 583-653: the links, the cluster of room 33, the links the shuffle
\* may move, hubs and dead ends, and the exits of room 33 as first edges
shuffle_rooms ==
    /\ rstatus = "loaded"
    /\ links' = generate_room_links(world)
    /\ room_cluster' = find_room_cluster(links', 33)
    /\ room_links' =
           SelectSeq([k \in 1..Len(links') |-> k],
                     LAMBDA k : /\ links'[k].code_room \in room_cluster'
                                /\ ~(links'[k].source.room = 85 /\ links'[k].target.room = 33)
                                /\ ~(links'[k].source.room = 57 \/ links'[k].target.room = 57))
    /\ dead_ends' = [r \in rooms_by_exits(links', room_links', room_cluster', FALSE) |->
                        exit_nodes(links', room_links')[r]]
    /\ LET hs == rooms_by_exits(links', room_links', room_cluster', TRUE)
           start_hub == sorted(exit_nodes(links', room_links')[33])
       IN  IF 33 \in hs
           THEN /\ hubs' = [r \in hs \ {33} |-> exit_nodes(links', room_links')[r]]
                /\ edges_left' = [n \in 1..Len(start_hub) |-> <<33, start_hub[n]>>]
                /\ rstatus' = "shuffling"
           ELSE \* hubs.pop(start_room) raises KeyError
                /\ hubs' = [r \in hs |-> exit_nodes(links', room_links')[r]]
                /\ edges_left' = <<>>
                /\ rstatus' = "failed"
    /\ UNCHANGED <<world, links_to_write>>
    /\ UNCHANGED <<scriptVars, objectVars, saveVars, cliVars, forestVars>>

\* lines 655-689: a random unbound edge is joined to a random exit of a
\* random hub, and the hub's other exits become unbound edges
shuffle_rooms_hub ==
    /\ rstatus = "shuffling" /\ edges_left # <<>> /\ DOMAIN hubs # {}
    /\ \E orig_edge \in Range(edges_left), hub_id \in DOMAIN hubs :
           IF hubs[hub_id] = {}
           THEN Raise  \* random.choice of an empty list
           ELSE \E h \in hubs[hub_id] : \E st \in {bind_edges(orig_edge, <<hub_id, h>>)} :
                    Bound(st,
                          remove(edges_left, orig_edge),
                          [n \in 1..(Cardinality(hubs[hub_id]) - 1) |->
                              <<hub_id, sorted(hubs[hub_id] \ {h})[n]>>],
                          Without(hubs, hub_id), dead_ends)

\* write_changes_from_links and return: the script of every record in
\* links_to_write is encoded again, once per mention; the outcome depends on
\* neither order nor repetition, so the list is kept as a set
Return ==
    /\ rstatus' = "done"
    /\ UNCHANGED <<world, links, room_cluster, room_links, hubs, dead_ends, edges_left,
                   links_to_write>>
    /\ UNCHANGED <<scriptVars, objectVars, saveVars, cliVars, forestVars>>

\* line 697: the loop is left with the chosen edge already removed
Break(edges) ==
    /\ rstatus' = "done"
    /\ edges_left' = edges
    /\ UNCHANGED <<world, links, room_cluster, room_links, hubs, dead_ends, links_to_write>>
    /\ UNCHANGED <<scriptVars, objectVars, saveVars, cliVars, forestVars>>

\* lines 690-721: with no hub left, a random unbound edge is joined to the
\* exit of a random dead end other than the room the edge leads to; with
\* no such dead end the loop is left
shuffle_rooms_dead_end ==
    /\ rstatus = "shuffling" /\ edges_left # <<>> /\ DOMAIN hubs = {} /\ DOMAIN dead_ends # {}
    /\ \E orig_edge \in Range(edges_left) :
           LET orig_link == find_link(links, room_links, orig_edge[1], orig_edge[2])
               dead_end_options == {x \in DOMAIN dead_ends : x # links[orig_link[1]].target.room}
           IN  IF dead_end_options = {}
               THEN Break(remove(edges_left, orig_edge))
               ELSE \E dead_end_room \in dead_end_options :
                        IF dead_ends[dead_end_room] = {}
                        THEN Raise  \* pop from an empty set
                        ELSE \E dead_end_id \in dead_ends[dead_end_room] :
                             \E st \in {bind_edges(orig_edge, <<dead_end_room, dead_end_id>>)} :
                                 Bound(st,
                                       remove(edges_left, orig_edge), <<>>,
                                       hubs, Without(dead_ends, dead_end_room))

\* a pass with neither a hub nor a dead end left only drops the edge
shuffle_rooms_spare_edge ==
    /\ rstatus = "shuffling" /\ edges_left # <<>> /\ DOMAIN hubs = {} /\ DOMAIN dead_ends = {}
    /\ \E orig_edge \in Range(edges_left) : edges_left' = remove(edges_left, orig_edge)
    /\ UNCHANGED <<world, links, room_cluster, room_links, hubs, dead_ends, links_to_write,
                   rstatus>>
    /\ UNCHANGED <<scriptVars, objectVars, saveVars, cliVars, forestVars>>

\* line 726: the loop has run out of edges
shuffle_rooms_return ==
    /\ rstatus = "shuffling" /\ edges_left = <<>>
    /\ Return

NextRooms ==
    \/ shuffle_rooms
    \/ shuffle_rooms_hub
    \/ shuffle_rooms_dead_end
    \/ shuffle_rooms_spare_edge
    \/ shuffle_rooms_return

SpecRooms == InitRooms /\ [][NextRooms]_vars

----------------------------------------------------------------------------
(* Properties of the main-world shuffle.                                   *)

\* C8: when shuffle_rooms has returned, every room that the links reached
\* from room 33 before the shuffle is still reached from room 33 over the
\* link records as they are now, whatever the random choices were.
C8_StaysConnected ==
    rstatus = "done" => (room_cluster \ {33}) \subseteq find_room_cluster(links, 33)

\* the conditions of C10 on one link record; same_room_too adds the one
\* on the target room being another room
Allowed(link, same_room_too) ==
    /\ link.source.room \notin MI1EGA_ROOM_CLASS.closeup \cup MI1EGA_ROOM_CLASS.card
    /\ link.target.room \notin MI1EGA_ROOM_CLASS.closeup \cup MI1EGA_ROOM_CLASS.card
    /\ same_room_too => link.target.room # link.source.room
    /\ link.target.room # 0
    /\ link.target.room < 200

\* C10: no link record, as extracted or after any number of exchanges, has a
\* closeup or a card room as its source or target room, and every record's
\* target room differs from its source room, is not 0 and is below 200.
C10_NoExcludedRoom == \A link \in Range(links) : Allowed(link, TRUE)

\* C10 as amended: every record generate_room_links produces, from the rooms
\* as loaded or as the exchanges left them, meets all the conditions; every
\* link record after any number of exchanges meets them except that its
\* target room may be its own source room.
C10_ExcludedRoomsOnly ==
    /\ \A link \in Range(generate_room_links(world)) : Allowed(link, TRUE)
    /\ \A link \in Range(links) : Allowed(link, FALSE)

\* the shuffle has returned after exchanges between exit objects only, and
\* a record leads from a room into the same room
C10_Witness ==
    /\ rstatus = "done"
    /\ links_to_write # {}
    /\ \A k \in Range(room_links) : links[k].source.type = "object"
    /\ \E k \in 1..Len(links) : links[k].target.room = links[k].source.room

----------------------------------------------------------------------------
(* The driver (cli.main): two runs on the same input and arguments.        *)

\* seeds run over 0..MaxSeed, which stands for 0..2**32 and for the states
\* the generator starts in when the process does not seed it
MaxSeed == 2

\* random choices one shuffle makes
MaxChoices == 2

\* random.choice and random.randint: the index drawn from n equally likely
\* values is a fixed function of the seed and of the draws made since
random_choice(rng, n) == ((rng.seed + 1) * (rng.pos + 1)) % n

\* random.seed
random_seed(seed) == [seed |-> seed, pos |-> 0]

\* the choices of one shuffle: the lists chosen from depend on the input
\* and on the choices made before, here 3 and 2 elements in turn
shuffle_choices(rng) ==
    [i \in 1..MaxChoices |->
        random_choice([seed |-> rng.seed, pos |-> rng.pos + i - 1], 2 + (i % 2))]

InitCli ==
    /\ IdleScript /\ IdleObject /\ IdleSave /\ IdleRooms /\ IdleForest
    /\ cli_args \in [seed_given : BOOLEAN, random_seed : 0..MaxSeed,
                     shuffle_rooms : BOOLEAN, shuffle_forest : BOOLEAN,
                     non_sequitur_swordfighting : BOOLEAN]
    /\ ~cli_args.seed_given => cli_args.random_seed = 0
    /\ \E entropy \in [1..2 -> 0..MaxSeed] :
           runs = [r \in 1..2 |-> [pc |-> "seed", random_seed |-> 0,
                                   rng |-> random_seed(entropy[r]),
                                   choices |-> <<>>, output |-> <<>>]]

\* lines 107-109: random_seed = args.random_seed; if not random_seed:
\* random_seed = random.randint(0, 2**32)
main_seed(r) ==
    /\ runs[r].pc = "seed"
    /\ runs' = [runs EXCEPT ![r] =
                  IF ~cli_args.seed_given \/ cli_args.random_seed = 0
                  THEN [@ EXCEPT !.pc = "shuffle_rooms",
                                 !.random_seed = random_choice(runs[r].rng, MaxSeed + 1),
                                 !.rng = [@ EXCEPT !.pos = @ + 1]]
                  ELSE [@ EXCEPT !.pc = "shuffle_rooms",
                                 !.random_seed = cli_args.random_seed]]
    /\ UNCHANGED cli_args
    /\ UNCHANGED <<scriptVars, objectVars, saveVars, roomsVars, forestVars>>

\* lines 119-130: each shuffle asked for seeds the generator and makes its
\* choices; the others are passed over
main_shuffle(r, stage, next) ==
    /\ runs[r].pc = stage
    /\ runs' = [runs EXCEPT ![r] =
                  IF cli_args[stage]
                  THEN [@ EXCEPT !.pc = next,
                                 !.rng = [seed |-> runs[r].random_seed, pos |-> MaxChoices],
                                 !.choices = @ \o <<shuffle_choices(random_seed(runs[r].random_seed))>>]
                  ELSE [@ EXCEPT !.pc = next]]
    /\ UNCHANGED cli_args
    /\ UNCHANGED <<scriptVars, objectVars, saveVars, roomsVars, forestVars>>

\* line 137: the files written are the input as the choices rewired it
main_save_all(r) ==
    /\ runs[r].pc = "save_all"
    /\ runs' = [runs EXCEPT ![r] = [@ EXCEPT !.pc = "done", !.output = runs[r].choices]]
    /\ UNCHANGED cli_args
    /\ UNCHANGED <<scriptVars, objectVars, saveVars, roomsVars, forestVars>>

NextCli ==
    \E r \in 1..2 :
        \/ main_seed(r)
        \/ main_shuffle(r, "shuffle_rooms", "shuffle_forest")
        \/ main_shuffle(r, "shuffle_forest", "non_sequitur_swordfighting")
        \/ main_shuffle(r, "non_sequitur_swordfighting", "save_all")
        \/ main_save_all(r)

SpecCli == InitCli /\ [][NextCli]_vars

\* C9: for every integer seed given as random-seed, two runs on the same
\* input with the same options make the same random choices in every
\* shuffle and write the same files.
C9_Deterministic ==
    (cli_args.seed_given /\ \A r \in 1..2 : runs[r].pc = "done") =>
        /\ runs[1].choices = runs[2].choices
        /\ runs[1].output = runs[2].output

----------------------------------------------------------------------------
(* The forest shuffle (mod_rooms.shuffle_forest): link extraction.         *)

\* find_forest_links: after every isEqual(VAR[4], room) the next
\* loadRoomWithEgo is the exit of that subroom through this object; the
\* search goes on behind the instruction found
find_forest_links(obj_id, verb_id, instr_list) ==
    LET RECURSIVE outer(_, _)
        RECURSIVE inner(_, _, _)
        inner(off, src_room, result) ==
            IF off > Len(instr_list) THEN result
            ELSE LET x == instr_list[off].instr
                 IN  IF x.name = "loadRoomWithEgo"
                     THEN outer(off + 1,
                                Append(result,
                                       [offset |-> off - 1,
                                        source |-> IScriptRef("object", src_room, obj_id, verb_id),
                                        target |-> IScriptRef("object", x.args.room[2],
                                                              x.args.obj[2], verb_id),
                                        op |-> "loadRoomWithEgo",
                                        code_room |-> 58]))
                     ELSE inner(off + 1, src_room, result)
        outer(off, result) ==
            IF off > Len(instr_list) THEN result
            ELSE LET w == instr_list[off].instr
                 IN  IF w.name = "isEqual" /\ w.args.a = V4Var(4, -1)
                     THEN inner(off + 1, w.args.b[2], result)
                     ELSE outer(off + 1, result)
    IN  outer(1, <<>>)

EXIT_OBJS == <<666, 668, 669>>

\* rooms 201, 206, 209 and 218 are links to outside the forest
FOREST_SKIP == {201, 206, 209, 218}

\* lines 903-909: the links of the verbs of the three exit objects
forest_links_of(w) ==
    Concat([n \in 1..Len(EXIT_OBJS) |->
        Concat([k \in 1..Len(w) |->
            IF w[k].room = 58 /\ w[k].type = "object" /\ w[k].id = EXIT_OBJS[n]
            THEN find_forest_links(w[k].id, w[k].verb, w[k].code)
            ELSE <<>>])])

All(l) == [k \in 1..Len(l) |-> k]

FOREST_HUBS(l) ==
    {r \in DOMAIN exit_nodes(l, All(l)) :
        r >= 200 /\ r \notin FOREST_SKIP /\ Cardinality(exit_nodes(l, All(l))[r]) > 2}

FOREST_PASSAGES(l) ==
    {r \in DOMAIN exit_nodes(l, All(l)) :
        r >= 200 /\ r \notin FOREST_SKIP /\ Cardinality(exit_nodes(l, All(l))[r]) = 2}

----------------------------------------------------------------------------------------------------------------------------------------------------
(* Sample forests: two hubs joined on two sides, four subrooms that lead   *)
(* outside, passages on the paths.                                         *)

\* most passages of a sample forest
MaxForestPassages == 2

\* <<subroom, exit object, room outside, object there>>
ForestExits ==
    << <<201, 666, 52, 3>>, <<206, 666, 64, 5>>, <<209, 666, 61, 2>>, <<218, 666, 63, 7>> >>

\* two-way paths that are always there: <<subroom, object, subroom, object>>
ForestPaths ==
    << <<201, 668, 203, 666>>, <<206, 669, 209, 668>>, <<209, 669, 218, 668>> >>

\* the paths between the hubs 203 and 204 and from 204 to 206, each
\* direct or through a passage (202, 207, 208)
ForestSides ==
    << [direct |-> << <<203, 668, 204, 666>> >>,
        through |-> << <<203, 668, 202, 666>>, <<202, 668, 204, 666>> >>],
       [direct |-> << <<203, 669, 204, 669>> >>,
        through |-> << <<203, 669, 207, 666>>, <<207, 669, 204, 669>> >>],
       [direct |-> << <<204, 668, 206, 668>> >>,
        through |-> << <<204, 668, 208, 666>>, <<208, 669, 206, 668>> >>] >>

\* the verb of exit object obj: per subroom with an exit there, in the
\* order given, isEqual(VAR[4], subroom) jumping over loadRoomWithEgo
ForestVerb(obj, exits) ==
    LET mine == SelectSeq(exits, LAMBDA e : e[2] = obj)
        bytes == Concat([n \in 1..Len(mine) |->
                     <<72, 4, 0, mine[n][1], 0, 8, 0,
                       36, mine[n][4] % 256, mine[n][4] \div 256, mine[n][3], 0, 0, 0, 0>>])
                 \o <<0>>
    IN  Script(58, "object", obj, 10, scumm_v4_tokenizer(bytes, 0, TRUE).list)

ForestOf(chosen) ==
    LET paths == ForestPaths
                 \o Concat([n \in 1..Len(ForestSides) |->
                        IF n \in chosen THEN ForestSides[n].through ELSE ForestSides[n].direct])
        exits == ForestExits
                 \o Concat([n \in 1..Len(paths) |->
                        << paths[n], <<paths[n][3], paths[n][4], paths[n][1], paths[n][2]>> >>])
    IN  [n \in 1..Len(EXIT_OBJS) |-> ForestVerb(EXIT_OBJS[n], exits)]

Forests ==
    {ForestOf(chosen) :
        chosen \in {c \in SUBSET (1..Len(ForestSides)) : Cardinality(c) <= MaxForestPassages}}

InitForest ==
    /\ IdleScript /\ IdleObject /\ IdleSave /\ IdleRooms /\ IdleCli
    /\ forest \in Forests
    /\ forest_before = forest
    /\ forest_links = <<>>
    /\ forest_todo = <<>>
    /\ forest_data = [k \in 1..Len(forest) |-> instr_list_to_bytes(forest[k].code)]
    /\ fstatus = "loaded"

----------------------------------------------------------------------------
(* The forest shuffle: the exchanges.  A link is named by its index in the *)
(* list of records; st = [world, links, ok], ok FALSE once a lookup found  *)
(* nothing (IndexError) and the run has stopped.                           *)

get_code_instr(w, link) == w[get_code(w, link)].code[link.offset + 1].instr

\* set_code_instr of mod_rooms.py: the instruction at the link's site
set_link_instr(w, link, instr) ==
    [w EXCEPT ![get_code(w, link)].code[link.offset + 1] = Entry(@.off, instr)]

\* link["target"]["room"] = ...; link["target"]["id"] = ...
retarget(l, k, room, id) == [l EXCEPT ![k].target.room = room, ![k].target.id = id]

exchange_links(st, a, b) ==
    LET w == st.world
        l == st.links
        tmp == get_code_instr(w, l[a])
        dest == get_code_instr(w, l[b])
    IN  [world |-> set_link_instr(set_link_instr(w, l[a], dest), l[b], tmp),
         links |-> [l EXCEPT ![a].target = l[b].target, ![b].target = l[a].target],
         ok |-> TRUE]

forest_room_link_swap(st, src_room, src_obj, dest_room, dest_obj) ==
    LET l == st.links
        src_link == find_link(l, All(l), src_room, src_obj)
        dest_link == find_link(l, All(l), dest_room, dest_obj)
        src_end_link == find_link(l, All(l), l[src_link[1]].target.room, l[src_link[1]].target.id)
        dest_end_link == find_link(l, All(l), l[dest_link[1]].target.room, l[dest_link[1]].target.id)
    IN  IF ~st.ok THEN st
        ELSE IF src_link = <<>> \/ dest_link = <<>> THEN [st EXCEPT !.ok = FALSE]
        ELSE IF src_end_link = <<>> \/ dest_end_link = <<>> THEN [st EXCEPT !.ok = FALSE]
        ELSE exchange_links(exchange_links(st, src_link[1], dest_link[1]),
                            src_end_link[1], dest_end_link[1])

\* the passage with exits a and b is taken out of its path, whose ends
\* left and right are joined, and put between c and d
move_passage(st, a, b, c, d) ==
    LET w0 == st.world
        l0 == st.links
        lefts == find_link(l0, All(l0), l0[a].target.room, l0[a].target.id)
        rights == find_link(l0, All(l0), l0[b].target.room, l0[b].target.id)
    IN  IF lefts = <<>> \/ rights = <<>> THEN [st EXCEPT !.ok = FALSE]
        ELSE
        LET left == lefts[1]
            right == rights[1]
            a_code == get_code_instr(w0, l0[a])
            b_code == get_code_instr(w0, l0[b])
            left_code == get_code_instr(w0, l0[left])
            right_code == get_code_instr(w0, l0[right])
            \* remove passage from old segment and join ends
            w1 == set_link_instr(set_link_instr(w0, l0[left], b_code), l0[right], a_code)
            l1 == retarget(l0, left, l0[right].source.room, l0[right].source.id)
            l2 == retarget(l1, right, l0[left].source.room, l0[left].source.id)
            \* attach passage to new segment
            c_code == get_code_instr(w1, l0[c])
            d_code == get_code_instr(w1, l0[d])
            w2 == set_link_instr(set_link_instr(w1, l0[a], d_code), l0[b], c_code)
            l3 == retarget(l2, a, l2[d].target.room, l2[d].target.id)
            l4 == retarget(l3, b, l3[c].target.room, l3[c].target.id)
            \* adjust segment to point to passage
            w3 == set_link_instr(set_link_instr(w2, l0[c], left_code), l0[d], right_code)
            l5 == retarget(l4, c, l0[a].source.room, l0[a].source.id)
            l6 == retarget(l5, d, l0[b].source.room, l0[b].source.id)
        IN  [world |-> w3, links |-> l6, ok |-> TRUE]

room_link_inject(st, src_room, src_obj_left, src_obj_right, dest_room, dest_obj) ==
    LET l == st.links
        src_link_left == find_link(l, All(l), src_room, src_obj_left)
        src_link_right == find_link(l, All(l), src_room, src_obj_right)
        dest_link == find_link(l, All(l), dest_room, dest_obj)
        dest_link_end == find_link(l, All(l), l[dest_link[1]].target.room,
                                   l[dest_link[1]].target.id)
    IN  IF src_link_left = <<>> \/ src_link_right = <<>> \/ dest_link = <<>>
        THEN [st EXCEPT !.ok = FALSE]
        ELSE IF dest_link_end = <<>> THEN [st EXCEPT !.ok = FALSE]
        ELSE move_passage(st, src_link_left[1], src_link_right[1], dest_link[1],
                          dest_link_end[1])

----------------------------------------------------------------------------
(* The forest shuffle: shuffle_forest.                                     *)

\* random.shuffle: every order of the elements
shuffled(set) ==
    {p \in [1..Cardinality(set) -> set] : \A i, j \in DOMAIN p : i # j => p[i] # p[j]}

\* the state after one pass of a loop of shuffle_forest
ForestPass(st) ==
    /\ forest' = st.world
    /\ forest_links' = st.links
    /\ forest_todo' = Tail(forest_todo)
    /\ fstatus' = IF st.ok THEN "shuffling" ELSE "failed"
    /\ UNCHANGED <<forest_before, forest_data>>
    /\ UNCHANGED <<scriptVars, objectVars, saveVars, roomsVars, cliVars>>

\* lines 903-943: the links, the hubs and the passages
shuffle_forest ==
    /\ fstatus = "loaded"
    /\ forest_links' = forest_links_of(forest)
    /\ forest_todo' =
           LET hs == sorted(FOREST_HUBS(forest_links'))
               ps == sorted(FOREST_PASSAGES(forest_links'))
           IN  [n \in 1..Len(hs) |-> <<"hub", hs[n]>>]
               \o [n \in 1..Len(ps) |-> <<"passage", ps[n]>>]
    /\ fstatus' = "shuffling"
    /\ UNCHANGED <<forest, forest_before, forest_data>>
    /\ UNCHANGED <<scriptVars, objectVars, saveVars, roomsVars, cliVars>>

\* lines 944-953: the three exits of a hub change places with the exits,
\* in a random order, of another hub chosen at random
shuffle_forest_hub ==
    /\ fstatus = "shuffling" /\ forest_todo # <<>> /\ Head(forest_todo)[1] = "hub"
    /\ LET src_hub == Head(forest_todo)[2]
           exits == exit_nodes(forest_links, All(forest_links))
           src_choices == sorted(exits[src_hub])
           start == [world |-> forest, links |-> forest_links, ok |-> TRUE]
       IN  \E dest_hub \in FOREST_HUBS(forest_links) \ {src_hub} :
               \E dest_choices \in shuffled(exits[dest_hub]) :
                   LET swap(st, i) == forest_room_link_swap(st, src_hub, src_choices[i],
                                                            dest_hub, dest_choices[i])
                   IN  \E first \in {swap(start, 1)} :
                           \E second \in {swap(first, 2)} :
                               \E third \in {swap(second, 3)} : ForestPass(third)

\* lines 955-964: a passage is put beside a random exit of a random hub,
\* either way round
shuffle_forest_passage ==
    /\ fstatus = "shuffling" /\ forest_todo # <<>> /\ Head(forest_todo)[1] = "passage"
    /\ LET src_passage == Head(forest_todo)[2]
           exits == exit_nodes(forest_links, All(forest_links))
           start == [world |-> forest, links |-> forest_links, ok |-> TRUE]
       IN  \E dest \in FOREST_HUBS(forest_links) :
               \E dest_obj \in exits[dest] :
                   \E src_choices \in shuffled(exits[src_passage]) :
                       \E moved \in {room_link_inject(start, src_passage, src_choices[1],
                                                       src_choices[2], dest, dest_obj)} :
                           ForestPass(moved)

\* lines 966-971: update_object_model of the three exit objects
shuffle_forest_return ==
    /\ fstatus = "shuffling" /\ forest_todo = <<>>
    /\ forest_data' = [k \in 1..Len(forest) |-> instr_list_to_bytes(forest[k].code)]
    /\ fstatus' = IF \E k \in 1..Len(forest) : IsError(forest_data'[k]) THEN "failed" ELSE "done"
    /\ UNCHANGED <<forest, forest_before, forest_links, forest_todo>>
    /\ UNCHANGED <<scriptVars, objectVars, saveVars, roomsVars, cliVars>>

NextForest ==
    \/ shuffle_forest
    \/ shuffle_forest_hub
    \/ shuffle_forest_passage
    \/ shuffle_forest_return

SpecForest == InitForest /\ [][NextForest]_vars

----------------------------------------------------------------------------
(* Properties of the forest shuffle.                                       *)

\* the links, as found before the shuffle, that lead out of the forest
ExternalExits ==
    {link \in Range(forest_links_of(forest_before)) :
        link.source.room \in FOREST_SKIP /\ link.target.room < 200}

ForestRooms == {r \in DOMAIN exit_nodes(forest_links, All(forest_links)) : r >= 200}

\* C11: whatever the random choices, the loadRoomWithEgo that leads from
\* subroom 201, 206, 209 or 218 out of the forest is the same instruction
\* at the same site as before the shuffle, in the script and, once the
\* objects are written back, in their bytes; its link record keeps its target.
C11_ExternalExitsKept ==
    \A link \in ExternalExits :
        /\ get_code_instr(forest, link) = get_code_instr(forest_before, link)
        /\ forest_links # <<>> => link \in Range(forest_links)
        /\ fstatus = "done" =>
               LET k == get_code(forest, link)
                   e == forest[k].code[link.offset + 1]
               IN  get_v4_instr(forest_data[k], e.off + 1).instr = e.instr

\* the shuffle has returned, and hub exits that led to the subrooms with
\* a way out lead elsewhere now
C11_Witness ==
    /\ fstatus = "done"
    /\ Cardinality(ExternalExits) = 4
    /\ forest # forest_before
    /\ \E k \in 1..Len(forest_links) :
           /\ forest_links[k].target.room \in FOREST_SKIP
           /\ forest_links[k] \notin Range(forest_links_of(forest_before))

\* C12: after shuffle_forest, whatever the random choices, every subroom
\* of the forest is reached over the link records from each of the
\* subrooms that lead outside.
C12_ForestConnected ==
    fstatus = "done" =>
        \A from \in FOREST_SKIP \cap ForestRooms :
            ForestRooms \ {from} \subseteq find_room_cluster(forest_links, from)

----------------------------------------------------------------------------
(* Properties of the writebacks.                                           *)

\* C13: a writeback whose re-encoding raises leaves the chunk model as it
\* was before the call: for an object its name, its event table and its
\* data bytes, and the verbs hold the script the call was given.
C13_Transactional ==
    [][ostatus' = "failed" => oc' = oc]_vars


----------------------------------------------------------------------------
(* The destination directory of save_all.                                  *)

\* C14: save_all is all-or-nothing: a run of it either leaves every file of
\* the destination directory as it was or leaves all five files new.
C14_AllOrNothing ==
    [][(out_files' = out_files) \/ (\A f \in SaveFiles : out_files'[f] = "new")]_vars


----------------------------------------------------------------------------
(* Jump targets the encoder cannot place.                                  *)

\* where branch i lands in the written chunk
Landing(i) == EmittedPos(i) + EncodedLen(i) + EmittedOffset(i)

\* a branch of the list whose target is the recorded offset of no entry
BadTarget == \E i \in Branches : target_idx(script, i) = 0

\* a writeback of a list with such a branch raises and stores no bytes
BadTargetRaises ==
    [][(edits' # edits /\ BadTarget') => (status' = "failed" /\ chunk' = chunk)]_vars

\* C15: a branch whose original target is not the recorded offset of an
\* entry makes the writeback fail and store nothing, and a writeback that
\* succeeds never leaves a branch landing on the start of an instruction
\* other than the one that stood at its original target.
C15_BadTargetFatal ==
    edits # <<>> =>
        /\ BadTarget => status = "failed"
        /\ status = "written" =>
              \A i \in Branches : \A k \in 1..Len(script) :
                  Landing(i) = EmittedPos(k) =>
                      (StoodBefore(k) /\ script[k].off = BranchTarget(script[i]))


----------------------------------------------------------------------------
(* Mutators whose precondition is not met.                                 *)

\* verb 10 of the object does not hold the run of instructions
\* fix_damn_forest_block blanks: no getObjectOwner(449), or fewer than six
\* (object 669) or nine (object 666) instructions from it on
ForestBlockMiss ==
    /\ object_id \in {669, 666}
    /\ LET src == verbs[CHOOSE k \in 1..Len(verbs) : verbs[k].verb = 10].code
           hits == {i \in 1..Len(src) :
                       /\ src[i].instr.name = "getObjectOwner"
                       /\ src[i].instr.args.obj = Imm(449)}
           n == IF object_id = 669 THEN 6 ELSE 9
       IN  \A i \in hits : (\E j \in hits : j < i) \/ i + n - 1 > Len(src)

\* C16: a mutator that does not find what it patches skips the rewrite: it
\* raises nothing and leaves the verbs and the block of the object as they
\* were.
C16_PreconditionMiss ==
    [][(ForestBlockMiss /\ oedits' = <<"fix_damn_forest_block">>) =>
           (ostatus' = ostatus /\ verbs' = verbs /\ oc' = oc)]_vars


----------------------------------------------------------------------------
(* Chunks the master index does not list.                                  *)

\* chunk k of LF j is an SC, SO or CO chunk with no master-index entry
NotInIndex(j, k) ==
    LET lf == archive.lfs[j]
        tag == lf.chunks[k].tag
    IN  /\ tag \in {"SC", "SO", "CO"}
        /\ IndexId(master[tag], lf.id, lf_start(lf, k)) = 0

\* C17: a chunk the master index does not list is skipped by the load,
\* whether it is an SC, an SO or a CO chunk: the load raises nothing and
\* the room map holds every room with the chunks that are listed.
C17_MissSkipped ==
    (\E j \in 1..Len(archive.lfs) : \E k \in 1..Len(archive.lfs[j].chunks) : NotInIndex(j, k)) =>
        /\ ~load_error
        /\ DOMAIN content = {archive.lfs[j].id : j \in 1..Len(archive.lfs)}


----------------------------------------------------------------------------
(* The order of a run: writebacks, then save_all.                          *)

\* main calls save_all after the last mutator, whatever the mutators did
SpecSaveFair == InitSave /\ [][NextSave]_vars /\ WF_vars(save_all)

\* the offset tables change in save_all only
TablesRepairedInSave ==
    [][(master' # master \/ archive'.fo # archive.fo) =>
           (~saved /\ ~save_error /\ (saved' \/ save_error'))]_vars

\* nothing is written back, repaired or saved after save_all
SaveIsLast ==
    [][(saved \/ save_error) =>
           (archive' = archive /\ master' = master /\ out_files' = out_files)]_vars

----------------------------------------------------------------------------
(* skip_code_wheel and debug_mode on global script 1 of room 10.           *)

\* the script as the loader decoded it
Loaded == scumm_v4_tokenizer(data, 0, TRUE).list

IsWheel(e) == e.instr.name = "startScript" /\ e.instr.args.script = Imm(152)

\* index of the first startScript(152) of the loaded script, 0 without one
FirstWheel ==
    LET hits == {i \in 1..Len(Loaded) : IsWheel(Loaded[i])}
    IN  IF hits = {} THEN 0 ELSE CHOOSE i \in hits : \A j \in hits : i <= j

\* branch i of the script lands, in the written chunk, on the start of an
\* entry that has the recorded offset the branch was decoded with
KeepsTarget(i) ==
    \E k \in 1..Len(script) :
        /\ script[k].off = script[i].off + Len(script[i].instr.raw) + script[i].instr.args.offset
        /\ Landing(i) = EmittedPos(k)

\* C19: skip_code_wheel takes out of the script the four entries from the
\* first startScript(152) on and nothing else, and in the bytes written
\* every branch left lands on the instruction it was decoded to target.
C19_SkipCodeWheel ==
    (edits = <<"skip_code_wheel">> /\ FirstWheel # 0 /\ FirstWheel + 3 <= Len(Loaded)) =>
        /\ script = SubSeq(Loaded, 1, FirstWheel - 1)
                      \o SubSeq(Loaded, FirstWheel + 4, Len(Loaded))
        /\ status = "written" => \A i \in Branches : KeepsTarget(i)

\* the removal happened between a branch and its target: the branch is
\* written with another offset than it was decoded with
C19_Witness ==
    /\ edits = <<"skip_code_wheel">> /\ status = "written"
    /\ FirstWheel # 0 /\ FirstWheel + 3 <= Len(Loaded)
    /\ \E i \in Branches : EmittedOffset(i) # script[i].instr.args.offset


\* the entry debug_mode puts in front: (0, move VAR[39] = 1)
DebugMove == Entry(0, V4Instr(25, "move", [value |-> Imm(1)], V4Var(39, -1)))

\* C20: debug_mode puts move VAR[39] = 1 in front of the script; in the
\* bytes written every instruction of the loaded script starts later by the
\* length of that move, and every branch lands on the instruction of the
\* loaded script it targeted, the first instruction included.
C20_DebugMode ==
    edits = <<"debug_mode">> =>
        /\ script = <<DebugMove>> \o Loaded
        /\ status = "written" =>
              /\ \A k \in 2..Len(script) :
                    EmittedPos(k) = script[k].off + Len(v4_instr_to_bytes(DebugMove.instr))
              /\ \A i \in Branches :
                    \E k \in 2..Len(script) :
                        /\ script[k].off = BranchTarget(script[i])
                        /\ Landing(i) = EmittedPos(k)


----------------------------------------------------------------------------
(* What a writeback does to the instructions no mutator touched.           *)

\* entry i of the script is an entry of the loaded script, as decoded
Untouched(i) == \E j \in 1..Len(Loaded) : Loaded[j] = script[i]

\* the bytes written for entry i
EmittedBytes(i) == SubSeq(chunk, EmittedPos(i) + 1, EmittedPos(i) + EncodedLen(i))

\* C21: when a script some mutator changed is written back, every entry
\* no mutator touched that carries no branch offset is written as exactly
\* its recorded raw bytes.
C21_UntouchedAsRaw ==
    (status = "written" /\ ~Unmodified) =>
        \A i \in 1..Len(script) :
            (Untouched(i) /\ ~HasOffset(script[i].instr)) =>
                EmittedBytes(i) = script[i].instr.raw


----------------------------------------------------------------------------
(* Zero-offset jumps, the filler of blanked instructions.                  *)

\* entry i is a jumpRelative with offset 0
ZeroJump(i) ==
    /\ script[i].instr.name = "jumpRelative"
    /\ script[i].instr.args.offset = 0

\* C22: a writeback that succeeds writes every zero-offset jumpRelative as
\* the bytes 18 00 00, wherever it stands, and a branch whose target is
\* the recorded offset of such a jump lands on the start of those bytes.
C22_NopPreserved ==
    status = "written" =>
        \A i \in 1..Len(script) :
            ZeroJump(i) =>
                /\ EmittedBytes(i) = <<24, 0, 0>>
                /\ \A b \in 1..Len(script) :
                      (/\ HasOffset(script[b].instr) /\ ~ZeroJump(b)
                       /\ BranchTarget(script[b]) = script[i].off) =>
                          Landing(b) = EmittedPos(i)

\* a blanked instruction that a branch targets, after an instruction the
\* encoder writes longer or shorter than it was read
C22_Witness ==
    /\ status = "written"
    /\ \E i \in 1..Len(script) :
          /\ ZeroJump(i)
          /\ \E b \in 1..Len(script) :
                /\ HasOffset(script[b].instr) /\ ~ZeroJump(b)
                /\ BranchTarget(script[b]) = script[i].off


----------------------------------------------------------------------------
(* exchange_multilinks on the link lists the shuffle hands it.             *)

\* the instruction at the source site of link record n
SiteInstr(w, l, n) == w[get_code(w, l[n])].code[l[n].offset + 1].instr

\* what the exchange of the lists a and b is to leave behind: the sites and
\* targets of a as b's first was, those of b as a's first was, the rest of
\* the world as it was
Exchanged(st, a, b, out) ==
    /\ out.ok
    /\ \A n \in Range(a) :
          /\ SiteInstr(out.world, out.links, n) = SiteInstr(st.world, st.links, b[1])
          /\ out.links[n].target = st.links[b[1]].target
    /\ \A n \in Range(b) :
          /\ SiteInstr(out.world, out.links, n) = SiteInstr(st.world, st.links, a[1])
          /\ out.links[n].target = st.links[a[1]].target
    /\ \A k \in 1..Len(st.world) : \A j \in 1..Len(st.world[k].code) :
          (\A n \in Range(a) \cup Range(b) :
               ~(get_code(st.world, st.links[n]) = k /\ st.links[n].offset + 1 = j)) =>
              out.world[k].code[j] = st.world[k].code[j]

\* the exits the loop may join an unbound edge to in this state
NewEdges ==
    LET left == IF DOMAIN hubs # {} THEN hubs ELSE dead_ends
    IN  UNION {{<<r, e>> : e \in left[r]} : r \in DOMAIN left}

\* C23: for every pair of non-empty link lists the loop exchanges, first
\* the links of the unbound edge with the links behind the new exit, then
\* the links of the new exit with the links behind the edge, the exchange
\* leaves the sites and targets of each list as the first link of the other
\* list was, and every other site as it was, also when the lists share a
\* link.
C23_ExchangeMultilinks ==
    rstatus = "shuffling" =>
        \A orig_edge \in Range(edges_left) : \A new_edge \in NewEdges :
            LET st == [world |-> world, links |-> links, ok |-> TRUE]
                orig_link == find_link(links, room_links, orig_edge[1], orig_edge[2])
                hub_link == find_link(links, room_links, new_edge[1], new_edge[2])
                orig_link_end == find_link_inverse(links, room_links, orig_edge[1], orig_edge[2])
                hub_link_end == find_link_inverse(links, room_links, new_edge[1], new_edge[2])
                first == exchange_multilinks(st, orig_link, hub_link_end)
            IN  /\ (orig_link # <<>> /\ hub_link_end # <<>>) =>
                       Exchanged(st, orig_link, hub_link_end, first)
                /\ (first.ok /\ hub_link # <<>> /\ orig_link_end # <<>>) =>
                       Exchanged(first, hub_link, orig_link_end,
                                 exchange_multilinks(first, hub_link, orig_link_end))


----------------------------------------------------------------------------
(* move_passage on the passages and hub exits the forest shuffle picks.    *)

\* every link that stays inside the forest has a link leading back from
\* the exit it arrives at
TwoWay(l) ==
    \A x \in 1..Len(l) :
        l[x].target.room >= 200 =>
            \E y \in 1..Len(l) :
                /\ l[y].source.room = l[x].target.room /\ l[y].source.id = l[x].target.id
                /\ l[y].target.room = l[x].source.room /\ l[y].target.id = l[x].source.id

LeadsTo(link, room, id) == link.target.room = room /\ link.target.id = id

\* what move_passage(a, b, c, d) is to leave behind, l being the links
\* before it and out the links after it
PassageMoved(l, out, a, b, c, d) ==
    LET left == find_link(l, All(l), l[a].target.room, l[a].target.id)[1]
        right == find_link(l, All(l), l[b].target.room, l[b].target.id)[1]
    IN  /\ LeadsTo(out[left], l[right].source.room, l[right].source.id)
        /\ LeadsTo(out[right], l[left].source.room, l[left].source.id)
        /\ LeadsTo(out[c], l[a].source.room, l[a].source.id)
        /\ LeadsTo(out[d], l[b].source.room, l[b].source.id)
        /\ LeadsTo(out[a], l[c].source.room, l[c].source.id)
        /\ LeadsTo(out[b], l[d].source.room, l[d].source.id)
        /\ TwoWay(out)

\* C24: for every passage the loop is about to move, either way round, and
\* every exit of every hub it may choose, the exit that leads to the
\* passage included, move_passage joins the two former neighbours of the
\* passage, makes the hub exit and its reverse link lead into the passage,
\* makes the exits of the passage lead to the hub and to the hub's former
\* neighbour, and leaves every link with a reverse link.
C24_MovePassage ==
    (/\ fstatus = "shuffling" /\ forest_todo # <<>> /\ Head(forest_todo)[1] = "passage"
     /\ TwoWay(forest_links)) =>
        LET l == forest_links
            src_passage == Head(forest_todo)[2]
            exits == exit_nodes(l, All(l))
            start == [world |-> forest, links |-> l, ok |-> TRUE]
        IN  \A dest \in FOREST_HUBS(l) : \A dest_obj \in exits[dest] :
                \A src_choices \in shuffled(exits[src_passage]) :
                    LET a == find_link(l, All(l), src_passage, src_choices[1])[1]
                        b == find_link(l, All(l), src_passage, src_choices[2])[1]
                        c == find_link(l, All(l), dest, dest_obj)[1]
                        d == find_link(l, All(l), l[c].target.room, l[c].target.id)[1]
                        moved == room_link_inject(start, src_passage, src_choices[1],
                                                  src_choices[2], dest, dest_obj)
                    IN  moved.ok /\ PassageMoved(l, moved.links, a, b, c, d)


----------------------------------------------------------------------------
(* Blanking instructions in place.                                         *)

\* the index old_bases.index gives a branch of a verb's code, 0 for none
Resolves(code, i) == IF IsBranch(code[i].instr) THEN target_idx(code, i) ELSE 0

\* C25: fix_damn_forest_block puts zero-offset jumps in the place of the
\* instructions it blanks and leaves every verb of the object with as many
\* entries as it had and every entry, blanked or not, with the offset it
\* was decoded at, so a branch left in the verb resolves to the index it
\* resolved to before.
C25_BlankingKeepsOffsets ==
    [][oedits' = <<"fix_damn_forest_block">> =>
           \A k \in 1..Len(verbs) :
               /\ Len(verbs'[k].code) = Len(verbs[k].code)
               /\ \A j \in 1..Len(verbs[k].code) :
                     /\ verbs'[k].code[j].off = verbs[k].code[j].off
                     /\ \/ verbs'[k].code[j] = verbs[k].code[j]
                        \/ verbs'[k].code[j].instr = nop
                     /\ IsBranch(verbs'[k].code[j].instr) =>
                            Resolves(verbs'[k].code, j) = Resolves(verbs[k].code, j)]_vars


----------------------------------------------------------------------------
(* The order in which shuffle_rooms attaches rooms.                        *)

\* the rooms not yet attached
Unbound == DOMAIN hubs \cup DOMAIN dead_ends

\* a pass of the loop that ran to its end
Pass == rstatus = "shuffling" /\ rstatus' = "shuffling"

\* the pass took edge e and attached hub hub_id by its exit h: the hub, and
\* no dead end, left the unbound rooms, and the hub's other exits, and
\* nothing else, were put behind the edges left over
AttachedHub(e, hub_id, h) ==
    LET rest == remove(edges_left, e)
    IN  /\ DOMAIN hubs' = DOMAIN hubs \ {hub_id}
        /\ dead_ends' = dead_ends
        /\ Len(edges_left') = Len(rest) + Cardinality(hubs[hub_id]) - 1
        /\ SubSeq(edges_left', 1, Len(rest)) = rest
        /\ Range(SubSeq(edges_left', Len(rest) + 1, Len(edges_left')))
               = {<<hub_id, x>> : x \in hubs[hub_id] \ {h}}

\* the pass took edge e and attached a dead end or, with none left, nothing
AttachedDeadEnd(e) ==
    /\ edges_left' = remove(edges_left, e)
    /\ hubs' = hubs
    /\ \/ dead_ends' = dead_ends /\ DOMAIN dead_ends = {}
       \/ \E d \in DOMAIN dead_ends : DOMAIN dead_ends' = DOMAIN dead_ends \ {d}

\* C26: every pass of the rewiring loop takes one edge out of edges_left,
\* an exit of a room that is already attached; while a hub is unbound the
\* pass attaches a hub and no dead end; a room that was attached is never
\* unbound again; and after a hub is attached exactly its exits other than
\* the one the edge was joined to are added to edges_left.
C26_AttachmentOrder ==
    [][Pass =>
          /\ \E e \in Range(edges_left) :
                 /\ e[1] \notin Unbound
                 /\ IF DOMAIN hubs # {}
                    THEN \E hub_id \in DOMAIN hubs : \E h \in hubs[hub_id] :
                             AttachedHub(e, hub_id, h)
                    ELSE AttachedDeadEnd(e)
          /\ Unbound' \subseteq Unbound
          /\ \A e \in Range(edges_left') : e[1] \notin Unbound']_vars

\* a hub has been attached, its other exits wait in edges_left, and another
\* hub is still unbound
C26_Witness ==
    /\ rstatus = "shuffling"
    /\ links_to_write # {}
    /\ DOMAIN hubs # {}
    /\ \E e \in Range(edges_left) : e[1] # 33


----------------------------------------------------------------------------
(* Termination of the rewiring loop.                                       *)

\* shuffle_rooms is straight-line code: a step that can run does run
SpecRoomsFair == SpecRooms /\ WF_vars(NextRooms)

\* the passes the loop can still make: one for every edge waiting and one
\* for every exit but one of every hub still unbound
PassesLeft ==
    LET RECURSIVE spare(_)
        spare(rooms) ==
            IF rooms = {} THEN 0
            ELSE LET r == CHOOSE x \in rooms : TRUE
                 IN  Cardinality(hubs[r]) - 1 + spare(rooms \ {r})
    IN  Len(edges_left) + spare(DOMAIN hubs)

\* the exits of attached rooms that are not waiting in edges_left: the
\* edges the loop has taken and the exits rooms were attached by
Consumed ==
    LET en == exit_nodes(links, room_links)
    IN  {e \in UNION {{<<r, x>> : x \in en[r]} : r \in DOMAIN en} :
            e[1] \notin Unbound /\ e \notin Range(edges_left)}

----------------------------------------------------------------------------
(* Two-way links in the main-world shuffle.                                *)

\* the links the shuffle may move that leave exit id of room
Leaving(room, id) == Range(find_link(links, room_links, room, id))

\* every link the shuffle may move arrives at an exit whose links lead
\* back to the exit it left
Symmetric ==
    \A n \in Range(room_links) :
        /\ Leaving(links[n].target.room, links[n].target.id) # {}
        /\ \A k \in Leaving(links[n].target.room, links[n].target.id) :
               LeadsTo(links[k], links[n].source.room, links[n].source.id)

\* the exit of link n is joined: its room and the room it leads to are
\* attached, neither exit waits in edges_left, the exit it leads to leads
\* back, and an exchange has written it
Joined(n) ==
    /\ n \in links_to_write
    /\ links[n].source.room \notin Unbound
    /\ links[n].target.room \notin Unbound
    /\ <<links[n].source.room, links[n].source.id>> \notin Range(edges_left)
    /\ <<links[n].target.room, links[n].target.id>> \notin Range(edges_left)
    /\ \A k \in Leaving(links[n].target.room, links[n].target.id) :
           LeadsTo(links[k], links[n].source.room, links[n].source.id)

\* C28: when the links are pairwise symmetric, no pass of the loop changes
\* the instruction or the target of a link whose exit has been joined to
\* another exit by an earlier pass.
C28_WiredPairsStable ==
    [][(rstatus = "shuffling" /\ Symmetric) =>
           \A n \in Range(room_links) :
               Joined(n) => /\ SiteInstr(world', links', n) = SiteInstr(world, links, n)
                            /\ links'[n] = links[n]]_vars

\* two exits have been joined and a later pass has joined two more
C28_Witness ==
    /\ rstatus = "shuffling"
    /\ Symmetric
    /\ Cardinality({n \in Range(room_links) : Joined(n)}) >= 4


\* the link records name the sites they named in others
SameSites(others) ==
    /\ Len(links) = Len(others)
    /\ \A n \in 1..Len(links) :
           /\ links[n].source = others[n].source
           /\ links[n].code_room = others[n].code_room
           /\ links[n].offset = others[n].offset

\* how many of the sites the shuffle may move hold instruction v in world w
Holding(w, v) == Cardinality({n \in Range(room_links) : SiteInstr(w, links, n) = v})

\* a pass keeps the links pairwise symmetric and every record on its site
KeepsTwoWay ==
    /\ Symmetric'
    /\ room_links' = room_links
    /\ SameSites(links)'

\* C29: when the links are pairwise symmetric they are pairwise symmetric
\* after every pass of the loop and so when shuffle_rooms returns, every
\* link record names the site it named before the pass, and the pass only
\* permutes the instructions of the sites: every instruction is held by as
\* many sites as before.
C29_TwoWayPermuted ==
    [][(rstatus = "shuffling" /\ Symmetric) =>
           /\ KeepsTwoWay
           /\ \A n \in Range(room_links) :
                  Holding(world', SiteInstr(world, links, n))
                      = Holding(world, SiteInstr(world, links, n))]_vars

\* C29 as amended: when the links are pairwise symmetric they are pairwise
\* symmetric after every pass of the loop and so when shuffle_rooms returns,
\* every link record names the site it named before the pass, and every
\* site holds an instruction that one of the sites held before the pass.
C29_TwoWayConsistency ==
    [][(rstatus = "shuffling" /\ Symmetric) =>
           /\ KeepsTwoWay
           /\ \A n \in Range(room_links) :
                  Holding(world, SiteInstr(world', links', n)) > 0]_vars

\* shuffle_rooms has returned from symmetric links, an exit with two links
\* among them, and the links of that exit lead somewhere else than before
C29_Witness ==
    /\ rstatus = "done"
    /\ Symmetric
    /\ \E n, k \in Range(room_links) :
           /\ n # k
           /\ links[n].source.room = links[k].source.room
           /\ links[n].source.id = links[k].source.id
           /\ links[n].target = links[k].target
           /\ n \in links_to_write


----------------------------------------------------------------------------
(* Writebacks that are run again.                                          *)

\* entry i is as it was decoded in what a writeback reads of a branch: its
\* recorded offset, its offset argument and its raw bytes
AsDecoded(i) ==
    \E j \in 1..Len(Loaded) :
        /\ Loaded[j].off = script[i].off
        /\ Loaded[j].instr.args.offset = script[i].instr.args.offset
        /\ Loaded[j].instr.raw = script[i].instr.raw

\* C30: after a writeback that succeeded the instruction list is as the
\* mutator left it, so a second writeback of the script leaves the list
\* alone again and gives the bytes the chunk already holds, and every
\* branch that no mutator built still has the recorded offset, the offset
\* argument and the raw bytes it was decoded with, whatever mutators and
\* writebacks came before.
C30_WritebackRepeatable ==
    status = "written" =>
        /\ instrs_after(script) = script
        /\ instr_list_to_bytes(script) = chunk
        /\ "set_code_instr" \notin Range(edits) =>
               \A i \in 1..Len(script) : IsBranch(script[i].instr) => AsDecoded(i)

\* skip_code_wheel and then debug_mode have written a script that has a
\* branch, and the bytes are not the ones that were read
C30_Witness ==
    /\ status = "written"
    /\ edits = <<"skip_code_wheel", "debug_mode">>
    /\ chunk # data
    /\ Len(script) # Len(Loaded) + 1
    /\ \E i \in 1..Len(script) : IsBranch(script[i].instr)

====
